---- MODULE Spec2Model ----
(***************************************************************************)
(* Model of the cost core of autopilot-cost-calculator                     *)
(* (src/calculator/calculator.go): the resource normalizer                 *)
(* ValidateAndRoundResources, the classifier DecideComputeClass and the    *)
(* pricing engine CalculatePricing with its GetGCEMachinePrice lookup.     *)
(*                                                                         *)
(* Conventions.                                                            *)
(*  - Go strings that the code searches, splits or parses (machine types,  *)
(*    comma separated prefix lists) are sequences of one-character         *)
(*    strings; strings that are only compared for equality (GPU models)    *)
(*    are TLA+ strings.                                                    *)
(*  - int64 values are mathematical integers: every input set below lies   *)
(*    far under 2^63, where the code's additions cannot wrap.              *)
(*  - float64 prices are exact scaled integers.  A cost is held in         *)
(*    thousandths of the rate unit, so that rate*x/1000 is rate*x and a    *)
(*    term that the code does not divide by 1000 is multiplied by 1000.    *)
(*  - A Go run-time panic is the outcome Panic, never a value.             *)
(***************************************************************************)
EXTENDS Integers, Sequences, FiniteSets, TLC

VARIABLES
    pc,               \* position in the operation being run
    mCPU,             \* cpu of the workload, milli-cores
    memory,           \* memory of the workload, MiB
    storage,          \* ephemeral storage of the workload, MiB
    raw,              \* the triple as it was before ValidateAndRoundResources
    first,            \* the triple after the first ValidateAndRoundResources
    gpu,              \* number of GPUs requested
    gpuModel,         \* node selector cloud.google.com/gke-accelerator
    machineType,      \* instance type of the node
    arm64,            \* ARM flag handed to the classifier
    spot,             \* spot flag of the node
    computeClass,     \* compute class of the workload
    cost,             \* outcome of CalculatePricing
    Config,           \* service.Config
    AutopilotPricing, \* service.AutopilotPricing
    GCEPricing,       \* service.GCEPricing
    containers,       \* v.Containers: the container metrics of the pod
    specContainers,   \* pod.Spec.Containers
    podContainerCount,\* containers of the pod summed so far
    added,            \* the amounts the last container added to the totals
    otherTables,      \* a second pair of price tables, to compare costs under
    firstCost,        \* the cost under the first pair of price tables
    nodes,            \* the node map handed to PopulateWorkloads
    workloads,        \* the result list of PopulateWorkloads
    podMetricsList,   \* podMetricsList.Items still to be processed
    pod,              \* the pod of the current iteration
    rows,             \* the three total rows of DisplayWorkloadTable
    skus              \* the SKUs of the catalog still to be processed

\* the variables of the container loop of PopulateWorkloads
podVars == <<containers, specContainers, podContainerCount, added>>

\* the variables of a comparison of two price tables
tableVars == <<otherTables, firstCost>>

\* the variables of the pod loop of PopulateWorkloads
clusterVars == <<nodes, workloads, podMetricsList, pod>>

\* the variables of DisplayWorkloadTable and of GetAutopilotPricing
reportVars == <<rows, skus>>

vars == <<pc, mCPU, memory, storage, raw, first, gpu, gpuModel, machineType,
          arm64, spot, computeClass, cost, Config, AutopilotPricing, GCEPricing,
          containers, specContainers, podContainerCount, added,
          otherTables, firstCost, nodes, workloads, podMetricsList, pod, rows, skus>>

(***************************************************************************)
(* Bounds of the model.                                                    *)
(***************************************************************************)
\* the normalizer is run on every cpu value 0..MaxMilli
MaxMilli == 310
\* GPU counts 0..MaxGpu
MaxGpu == 2

(***************************************************************************)
(* ValidateAndRoundResources                                               *)
(***************************************************************************)
CPU_MIN == 50
MEM_MIN == 52
STORAGE_MIN == 10
CPU_STEP == 50

Triple(c, m, s) == [cpu |-> c, memory |-> m, storage |-> s]

\* variant: the memory floor is left out
ApplyMinimums_NoMemoryFloor(c, m, s) ==
    Triple(IF c < CPU_MIN THEN CPU_MIN ELSE c,
           m,
           IF s < STORAGE_MIN THEN STORAGE_MIN ELSE s)

\* variant: the storage floor is left out
ApplyMinimums_NoStorageFloor(c, m, s) ==
    Triple(IF c < CPU_MIN THEN CPU_MIN ELSE c,
           IF m < MEM_MIN THEN MEM_MIN ELSE m,
           s)

\* lines 515-526: the three minimum floors
ApplyMinimums(c, m, s) ==
    Triple(IF c < CPU_MIN THEN CPU_MIN ELSE c,
           IF m < MEM_MIN THEN MEM_MIN ELSE m,
           IF s < STORAGE_MIN THEN STORAGE_MIN ELSE s)

\* variant: the early return of an aligned value is left out, so that an
\* aligned cpu gains a whole step
RoundCpu_NoEarlyReturn(t) ==
    [t EXCEPT !.cpu = t.cpu + (CPU_STEP - (t.cpu % CPU_STEP))]

\* variant: the missing amount is computed and never added
RoundCpu_NotAdded(t) == t

\* variant: the historical variant, which rounds to 250 mCPU and raises the
\* memory to the rounded cpu
RoundCpu_Historical(t) ==
    LET missing == 250 - (t.cpu % 250)
        c       == IF missing = 250 THEN t.cpu ELSE t.cpu + missing
    IN  [t EXCEPT !.cpu = c, !.memory = IF t.memory < c THEN c ELSE t.memory]

\* variant: the step of the README, 250 mCPU, memory left alone
RoundCpu_Step250(t) ==
    LET missing == 250 - (t.cpu % 250)
    IN  IF missing = 250 THEN t ELSE [t EXCEPT !.cpu = t.cpu + missing]

\* lines 528-537: round the cpu up to the step; memory and storage pass
RoundCpu(t) ==
    LET mCPUMissing == CPU_STEP - (t.cpu % CPU_STEP)
    IN  IF mCPUMissing = CPU_STEP
        THEN t
        ELSE [t EXCEPT !.cpu = t.cpu + mCPUMissing]

ValidateAndRoundResources(c, m, s) == RoundCpu(ApplyMinimums(c, m, s))

(***************************************************************************)
(* Go strings: strings.Contains, strings.Split and strconv.Atoi as the     *)
(* code uses them.                                                         *)
(***************************************************************************)
\* strings.Contains(s, substr): substr occurs somewhere in s; the empty
\* substr occurs in every s
Contains(s, substr) ==
    \E i \in 0..(Len(s) - Len(substr)) : SubSeq(s, i + 1, i + Len(substr)) = substr

\* strings.HasPrefix(s, prefix): prefix is an initial segment of s
HasPrefix(s, prefix) ==
    Len(prefix) <= Len(s) /\ SubSeq(s, 1, Len(prefix)) = prefix

\* strings.Split(s, sep) for a one-character sep: the fields between the
\* separators, <<s>> when there is none (so <<"">> for the empty string)
RECURSIVE Split(_, _)
Split(s, sep) ==
    IF \A i \in 1..Len(s) : s[i] # sep
    THEN <<s>>
    ELSE LET i == CHOOSE k \in 1..Len(s) : s[k] = sep /\ \A j \in 1..(k - 1) : s[j] # sep
         IN  <<SubSeq(s, 1, i - 1)>> \o Split(SubSeq(s, i + 1, Len(s)), sep)

Digits == <<"0", "1", "2", "3", "4", "5", "6", "7", "8", "9">>

DigitValue(ch) == (CHOOSE i \in 1..Len(Digits) : Digits[i] = ch) - 1

RECURSIVE DecimalValue(_)
DecimalValue(s) ==
    IF Len(s) = 0 THEN 0
    ELSE 10 * DecimalValue(SubSeq(s, 1, Len(s) - 1)) + DigitValue(s[Len(s)])

\* n, _ := strconv.Atoi(s): an optional sign and decimal digits; a syntax
\* error leaves n = 0 (the error is dropped by the caller)
Atoi(s) ==
    LET signed == Len(s) > 0 /\ s[1] \in {"+", "-"}
        body   == IF signed THEN Tail(s) ELSE s
        isNum  == Len(body) > 0 /\ \A i \in 1..Len(body) : \E d \in 1..Len(Digits) : Digits[d] = body[i]
    IN  IF ~isNum THEN 0
        ELSE IF signed /\ s[1] = "-" THEN 0 - DecimalValue(body)
        ELSE DecimalValue(body)

(***************************************************************************)
(* cluster.ComputeClass                                                    *)
(***************************************************************************)
ComputeClassGeneralPurpose == "GeneralPurpose"
ComputeClassBalanced == "Balanced"
ComputeClassScaleout == "Scaleout"
ComputeClassScaleoutArm == "ScaleoutArm"
ComputeClassPerformance == "Performance"
ComputeClassAccelerator == "Accelerator"
ComputeClassGPUPod == "GPUPod"

ComputeClasses ==
    {ComputeClassGeneralPurpose, ComputeClassBalanced, ComputeClassScaleout,
     ComputeClassScaleoutArm, ComputeClassPerformance, ComputeClassAccelerator,
     ComputeClassGPUPod}

(***************************************************************************)
(* service.Config: an ini file, a record of sections, each a record of     *)
(* keys.  A key that is missing reads as 0 (Float64, Int64: the error is   *)
(* dropped) or as the empty string (String).  Ratio thresholds are whole   *)
(* numbers here.                                                           *)
(***************************************************************************)
HasKey(section, key) ==
    section \in DOMAIN Config /\ key \in DOMAIN Config[section]

\* v, _ := Config.Section(section).Key(key).Float64()
KeyFloat64(section, key) == IF HasKey(section, key) THEN Config[section][key] ELSE 0

\* v, _ := Config.Section(section).Key(key).Int64()
KeyInt64(section, key) == IF HasKey(section, key) THEN Config[section][key] ELSE 0

\* Config.Section("").Key(key).String() of a key whose value is searched
KeyString(key) == IF HasKey("root", key) THEN Config["root"][key] ELSE <<>>

\* Config.Section("").Key(key).String() of a key whose value is compared
KeyName(key) == IF HasKey("root", key) THEN Config["root"][key] ELSE ""

(***************************************************************************)
(* float64 ratio: math.Ceil(float64(memory) / float64(mCPU)).  A division  *)
(* by zero is no panic in float64: it gives +Inf, or NaN for 0/0.          *)
(***************************************************************************)
Num(n) == [kind |-> "num", val |-> n]
PosInf == [kind |-> "inf", val |-> 0]
NaN == [kind |-> "nan", val |-> 0]

CeilDiv(a, b) == (a + b - 1) \div b

\* variant: the quotient rounded down
Ratio_Floor(mem, cpu) ==
    IF cpu = 0 THEN (IF mem = 0 THEN NaN ELSE PosInf) ELSE Num(mem \div cpu)

\* line 367
Ratio(mem, cpu) ==
    IF cpu = 0 THEN (IF mem = 0 THEN NaN ELSE PosInf) ELSE Num(CeilDiv(mem, cpu))

\* float64 comparisons of a ratio r with a threshold x
FLess(r, x) == (r.kind = "num" /\ r.val < x)
FGreater(r, x) == (r.kind = "inf") \/ (r.kind = "num" /\ r.val > x)
FGreaterEq(r, x) == (r.kind = "inf") \/ (r.kind = "num" /\ r.val >= x)
FLessEq(r, x) == (r.kind = "num" /\ r.val <= x)

(***************************************************************************)
(* DecideComputeClass                                                      *)
(***************************************************************************)
\* lines 369-374, 378-379, 382-385: the thresholds that decide a class.  The
\* thresholds read at lines 375-376, 380-381 and 386-412 are used in logged
\* range checks only.
ratioRegularMin == KeyFloat64("ratios", "generalpurpose_min")
ratioRegularMax == KeyFloat64("ratios", "generalpurpose_max")
ratioBalancedMin == KeyFloat64("ratios", "balanced_min")
ratioBalancedMax == KeyFloat64("ratios", "balanced_max")
ratioScaleoutMin == KeyFloat64("ratios", "scaleout_min")
ratioScaleoutMax == KeyFloat64("ratios", "scaleout_max")
scaleoutMcpuMax == KeyInt64("limits", "scaleout_mcpu_max")
scaleoutMemoryMax == KeyInt64("limits", "scaleout_memory_max")
regularMcpuMax == KeyInt64("limits", "generalpurpose_mcpu_max")
regularMemoryMax == KeyInt64("limits", "generalpurpose_memory_max")
balancedMcpuMax == KeyInt64("limits", "balanced_mcpu_max")
\* line 385 reads the key balanced_mcpu_max once more
balancedMemoryMax == KeyInt64("limits", "balanced_mcpu_max")

\* the loops of lines 414-419 and 430-458: some entry of the comma
\* separated list occurs in the machine type
\* variant: an empty entry of the list matches nothing
ContainsAnyOf_SkipsEmpty(mt, list) ==
    LET entries == Split(list, ",")
    IN  \E i \in 1..Len(entries) : entries[i] # <<>> /\ Contains(mt, entries[i])

ContainsAnyOf(mt, list) ==
    LET entries == Split(list, ",")
    IN  \E i \in 1..Len(entries) : Contains(mt, entries[i])

\* lines 414-419
IsComputeOptimized(mt) == ContainsAnyOf(mt, KeyString("gce_compute_optimized_prefixed"))

\* line 422
IsH100(gm) == gm = KeyName("nvidia_h100_identifier")

\* lines 430-432
IsAcceleratorOptimized(mt) == ContainsAnyOf(mt, KeyString("gce_accelerator_optimized_prefixed"))

\* line 493: the general-purpose ratio band and ceilings
GeneralPurposeBand(ratio, c, m) ==
    /\ FGreaterEq(ratio, ratioRegularMin) /\ FLessEq(ratio, ratioRegularMax)
    /\ c <= regularMcpuMax /\ m <= regularMemoryMax

\* line 498: the scale-out ratio band and ceilings
ScaleoutBand(ratio, c, m) ==
    /\ FGreaterEq(ratio, ratioScaleoutMin) /\ FLessEq(ratio, ratioScaleoutMax)
    /\ c <= scaleoutMcpuMax /\ m <= scaleoutMemoryMax

\* variant: a maximum of 0 is no maximum
BalancedBand_ZeroIsNoLimit(ratio, c, m) ==
    /\ FGreaterEq(ratio, ratioBalancedMin)
    /\ (ratioBalancedMax = 0 \/ FLessEq(ratio, ratioBalancedMax))
    /\ (balancedMcpuMax = 0 \/ c <= balancedMcpuMax)
    /\ (balancedMemoryMax = 0 \/ m <= balancedMemoryMax)

\* line 503: the balanced ratio band and ceilings
BalancedBand(ratio, c, m) ==
    /\ FGreaterEq(ratio, ratioBalancedMin) /\ FLessEq(ratio, ratioBalancedMax)
    /\ c <= balancedMcpuMax /\ m <= balancedMemoryMax

\* variant: no class is returned when no band matches
RatioClass_NoFallback(ratio, c, m) ==
    IF GeneralPurposeBand(ratio, c, m) THEN ComputeClassGeneralPurpose
    ELSE IF ScaleoutBand(ratio, c, m) THEN ComputeClassScaleout
    ELSE IF BalancedBand(ratio, c, m) THEN ComputeClassBalanced
    ELSE "NoClass"

\* lines 492-509: the ratio bands, in the order general-purpose, scale-out,
\* balanced, and the general-purpose default
RatioClass(ratio, c, m) ==
    IF GeneralPurposeBand(ratio, c, m) THEN ComputeClassGeneralPurpose
    ELSE IF ScaleoutBand(ratio, c, m) THEN ComputeClassScaleout
    ELSE IF BalancedBand(ratio, c, m) THEN ComputeClassBalanced
    ELSE ComputeClassGeneralPurpose

\* v, _ := Config.Section("limits").Key(key).Int64() of a threshold that is
\* used in a logged range check only (lines 380-381, 386-407)
Limit(key) == KeyInt64("limits", key)

\* line 423: the condition under which the flagship rule logs
PerformanceOutOfRange(ratio, c, m) ==
    \/ FLess(ratio, KeyFloat64("ratios", "performance_min"))
    \/ FGreater(ratio, KeyFloat64("ratios", "performance_max"))
    \/ c > Limit("performance_mcpu_max") \/ m > Limit("performance_memory_max")

\* lines 462-479: the condition under which the GPU rule logs; a model
\* outside the four cases logs nothing
GPUPodOutOfRange(gm, c, m) ==
    CASE gm = "nvidia-tesla-t4" ->
           c > Limit("gpupod_t4_mcpu_max") \/ c < Limit("gpupod_t4_mcpu_min")
           \/ m > Limit("gpupod_t4_memory_max") \/ m < Limit("gpupod_t4_memory_min")
      [] gm = "nvidia-l4" ->
           c > Limit("gpupod_l4_mcpu_max") \/ c < Limit("gpupod_l4_mcpu_min")
           \/ m > Limit("gpupod_l4_memory_max") \/ m < Limit("gpupod_l4_memory_min")
      [] gm = "nvidia-tesla-a100" ->
           c > Limit("gpupod_a100_40_mcpu_max") \/ c < Limit("gpupod_a100_40_mcpu_min")
           \/ m > Limit("gpupod_a100_40_memory_max") \/ m < Limit("gpupod_a100_40_memory_min")
      [] gm = "nvidia-a100-80gb" ->
           c > Limit("gpupod_a100_80_mcpu_max") \/ c < Limit("gpupod_a100_80_mcpu_min")
           \/ m > Limit("gpupod_a100_80_memory_max") \/ m < Limit("gpupod_a100_80_memory_min")
      [] OTHER -> FALSE

\* line 485: the condition under which the ARM rule logs
ArmOutOfRange(ratio, c, m) ==
    \/ FLess(ratio, ratioScaleoutMin) \/ FGreater(ratio, ratioScaleoutMax)
    \/ c > Limit("scaleout_arm_mcpu_max") \/ m > Limit("scaleout_arm_memory_max")

\* variant: the ARM range check rejects, and the ratio bands decide
DecideComputeClass_ArmRangeRejects(workloadName, mt, c, m, g, gm, arm) ==
    LET ratio == Ratio(m, c)
    IN  IF IsComputeOptimized(mt) THEN ComputeClassPerformance
        ELSE IF IsH100(gm) THEN ComputeClassPerformance
        ELSE IF IsAcceleratorOptimized(mt) THEN ComputeClassAccelerator
        ELSE IF g > 0 THEN ComputeClassGPUPod
        ELSE IF arm /\ ~ArmOutOfRange(ratio, c, m) THEN ComputeClassScaleoutArm
        ELSE RatioClass(ratio, c, m)

\* variant: the accelerator-optimized families are tested first
DecideComputeClass_AcceleratorFirst(workloadName, mt, c, m, g, gm, arm) ==
    LET ratio == Ratio(m, c)
    IN  IF IsAcceleratorOptimized(mt) THEN ComputeClassAccelerator
        ELSE IF IsComputeOptimized(mt) THEN ComputeClassPerformance
        ELSE IF IsH100(gm) THEN ComputeClassPerformance
        ELSE IF g > 0 THEN ComputeClassGPUPod
        ELSE IF arm THEN ComputeClassScaleoutArm
        ELSE RatioClass(ratio, c, m)

\* variant: the range check of the flagship rule rejects, and the later
\* rules decide
DecideComputeClass_FlagshipRangeRejects(workloadName, mt, c, m, g, gm, arm) ==
    LET ratio == Ratio(m, c)
    IN  IF IsComputeOptimized(mt) THEN ComputeClassPerformance
        ELSE IF IsH100(gm) /\ ~PerformanceOutOfRange(ratio, c, m) THEN ComputeClassPerformance
        ELSE IF IsAcceleratorOptimized(mt) THEN ComputeClassAccelerator
        ELSE IF g > 0 THEN ComputeClassGPUPod
        ELSE IF arm THEN ComputeClassScaleoutArm
        ELSE RatioClass(ratio, c, m)

\* variant: the ARM flag is tested before the GPU count
DecideComputeClass_ArmFirst(workloadName, mt, c, m, g, gm, arm) ==
    LET ratio == Ratio(m, c)
    IN  IF IsComputeOptimized(mt) THEN ComputeClassPerformance
        ELSE IF IsH100(gm) THEN ComputeClassPerformance
        ELSE IF IsAcceleratorOptimized(mt) THEN ComputeClassAccelerator
        ELSE IF arm THEN ComputeClassScaleoutArm
        ELSE IF g > 0 THEN ComputeClassGPUPod
        ELSE RatioClass(ratio, c, m)

\* lines 366-510.  The range checks of lines 423-425, 433-454, 462-479 and
\* 485-487 only log.
DecideComputeClass(workloadName, mt, c, m, g, gm, arm) ==
    LET ratio == Ratio(m, c)
    IN  IF IsComputeOptimized(mt) THEN ComputeClassPerformance
        ELSE IF IsH100(gm) THEN ComputeClassPerformance
        ELSE IF IsAcceleratorOptimized(mt) THEN ComputeClassAccelerator
        ELSE IF g > 0 THEN ComputeClassGPUPod
        ELSE IF arm THEN ComputeClassScaleoutArm
        ELSE RatioClass(ratio, c, m)

(***************************************************************************)
(* GetGCEMachinePrice and CalculatePricing                                 *)
(***************************************************************************)
\* the outcome of a call: a returned value, or a run-time panic
Return(v) == [panic |-> FALSE, value |-> v]
Panic == [panic |-> TRUE, value |-> 0]

STANDARD == <<"s", "t", "a", "n", "d", "a", "r", "d">>
HIGHCPU == <<"h", "i", "g", "h", "c", "p", "u">>
HIGHMEM == <<"h", "i", "g", "h", "m", "e", "m">>
HIGHGPU == <<"h", "i", "g", "h", "g", "p", "u">>
ULTRAGPU == <<"u", "l", "t", "r", "a", "g", "p", "u">>
A2 == <<"a", "2">>
A3 == <<"a", "3">>
G2 == <<"g", "2">>
H3 == <<"h", "3">>
C2 == <<"c", "2">>
C2D == <<"c", "2", "d">>

\* variant: the implied ram is truncated, not raised by math.Ceil
ImpliedRam_Truncated(classType, cpus) ==
    CASE classType = STANDARD -> cpus * 4
      [] classType = HIGHCPU  -> cpus * 2
      [] classType = HIGHMEM  -> cpus * 4
      [] classType = HIGHGPU  -> (cpus * 70833) \div 10000
      [] classType = ULTRAGPU -> (cpus * 141666) \div 10000
      [] OTHER -> 0

\* lines 200-217: math.Ceil of the ram implied by the class field; 7.0833
\* and 14.1666 are held in ten-thousandths
ImpliedRam(classType, cpus) ==
    CASE classType = STANDARD -> cpus * 4
      [] classType = HIGHCPU  -> cpus * 2
      [] classType = HIGHMEM  -> cpus * 4
      [] classType = HIGHGPU  -> CeilDiv(cpus * 70833, 10000)
      [] classType = ULTRAGPU -> CeilDiv(cpus * 141666, 10000)
      [] OTHER -> 0

\* lines 220-238: the spot rates of a family; h3 reads the on-demand fields
SpotMachineRates(family) ==
    CASE family = A2  -> <<GCEPricing.SpotA2CpuPrice, GCEPricing.SpotA2MemoryPrice>>
      [] family = A3  -> <<GCEPricing.SpotA3CpuPrice, GCEPricing.SpotA3MemoryPrice>>
      [] family = G2  -> <<GCEPricing.SpotG2DCpuPrice, GCEPricing.SpotG2DMemoryPrice>>
      [] family = H3  -> <<GCEPricing.H3CpuPrice, GCEPricing.H3MemoryPrice>>
      [] family = C2  -> <<GCEPricing.SpotC2CpuPrice, GCEPricing.SpotC2MemoryPrice>>
      [] family = C2D -> <<GCEPricing.SpotC2DCpuPrice, GCEPricing.SpotC2DMemoryPrice>>
      [] OTHER -> <<0, 0>>

\* lines 243-260: the on-demand rates of a family
OnDemandMachineRates(family) ==
    CASE family = A2  -> <<GCEPricing.A2CpuPrice, GCEPricing.A2MemoryPrice>>
      [] family = A3  -> <<GCEPricing.A3CpuPrice, GCEPricing.A3MemoryPrice>>
      [] family = G2  -> <<GCEPricing.G2CpuPrice, GCEPricing.G2MemoryPrice>>
      [] family = H3  -> <<GCEPricing.H3CpuPrice, GCEPricing.H3MemoryPrice>>
      [] family = C2  -> <<GCEPricing.C2CpuPrice, GCEPricing.C2MemoryPrice>>
      [] family = C2D -> <<GCEPricing.C2DCpuPrice, GCEPricing.C2DMemoryPrice>>
      [] OTHER -> <<0, 0>>

\* lines 196-261.  instanceInfo[2], [1] and [0] are read with no check of
\* the number of fields: fewer than three fields is an index out of range.
\* The price is in rate units.
GetGCEMachinePrice(instanceType, sp) ==
    LET instanceInfo == Split(instanceType, "-")
    IN  IF Len(instanceInfo) < 3 THEN Panic
        ELSE LET cpus  == Atoi(instanceInfo[3])
                 ram   == ImpliedRam(instanceInfo[2], cpus)
                 rates == IF sp THEN SpotMachineRates(instanceInfo[1])
                                ELSE OnDemandMachineRates(instanceInfo[1])
             IN  Return(rates[1] * cpus + rates[2] * ram)

\* variant: the machine price is obtained and not added
PlusMachinePrice_Omitted(price, instanceType, sp) ==
    LET gce == GetGCEMachinePrice(instanceType, sp)
    IN  IF gce.panic THEN Panic ELSE Return(price)

\* an Autopilot price plus the machine price (lines 75-77, 97-98, 142-143,
\* 162-164); the machine price is not divided by 1000
PlusMachinePrice(price, instanceType, sp) ==
    LET gce == GetGCEMachinePrice(instanceType, sp)
    IN  IF gce.panic THEN Panic ELSE Return(price + 1000 * gce.value)

\* the formula rate*cpu/1000 + rate*memory/1000 + rate*storage/1000
ResourcePrice(cpuRate, memoryRate, storageRate, c, m, s) ==
    cpuRate * c + memoryRate * m + storageRate * s

\* lines 81-95: the spot accelerator price with the GPU premium of the model
SpotAcceleratorPrice(base, g, gm) ==
    CASE gm = "nvidia-tesla-t4"   -> base + 1000 * AutopilotPricing.SpotAcceleratorT4GPUPricePremium * g
      [] gm = "nvidia-l4"         -> base + 1000 * AutopilotPricing.SpotAcceleratorL4GPUPricePremium * g
      [] gm = "nvidia-tesla-a100" -> base + 1000 * AutopilotPricing.SpotAcceleratorA10040GGPUPricePremium * g
      [] gm = "nvidia-a100-80gb"  -> base + 1000 * AutopilotPricing.SpotAcceleratorA10080GGPUPricePremium * g
      [] gm = "nvidia-h100-80gb"  -> base + 1000 * AutopilotPricing.SpotAcceleratorH100GPUPricePremium * g
      [] OTHER -> 0

\* lines 146-160
AcceleratorPrice(base, g, gm) ==
    CASE gm = "nvidia-tesla-t4"   -> base + 1000 * AutopilotPricing.AcceleratorT4GPUPricePremium * g
      [] gm = "nvidia-l4"         -> base + 1000 * AutopilotPricing.AcceleratorL4GPUPricePremium * g
      [] gm = "nvidia-tesla-a100" -> base + 1000 * AutopilotPricing.AcceleratorA10040GGPUPricePremium * g
      [] gm = "nvidia-a100-80gb"  -> base + 1000 * AutopilotPricing.AcceleratorA10080GGPUPricePremium * g
      [] gm = "nvidia-h100-80gb"  -> base + 1000 * AutopilotPricing.AcceleratorH100GPUPricePremium * g
      [] OTHER -> 0

\* lines 102-114
SpotGPUPodPrice(base, g, gm) ==
    CASE gm = "nvidia-tesla-t4"   -> base + 1000 * AutopilotPricing.SpotNVIDIAT4PodGPUPrice * g
      [] gm = "nvidia-l4"         -> base + 1000 * AutopilotPricing.SpotNVIDIAL4PodGPUPrice * g
      [] gm = "nvidia-tesla-a100" -> base + 1000 * AutopilotPricing.SpotNVIDIAA10040GPodGPUPrice * g
      [] gm = "nvidia-a100-80gb"  -> base + 1000 * AutopilotPricing.SpotNVIDIAA10080GPodGPUPrice * g
      [] OTHER -> 0

\* variant: an unknown model keeps the resource part of the price
GPUPodPrice_UnknownKeepsBase(base, g, gm) ==
    CASE gm = "nvidia-tesla-t4"   -> base + 1000 * AutopilotPricing.NVIDIAT4PodGPUPrice * g
      [] gm = "nvidia-l4"         -> base + 1000 * AutopilotPricing.NVIDIAL4PodGPUPrice * g
      [] gm = "nvidia-tesla-a100" -> base + 1000 * AutopilotPricing.NVIDIAA10040GPodGPUPrice * g
      [] gm = "nvidia-a100-80gb"  -> base + 1000 * AutopilotPricing.NVIDIAA10080GPodGPUPrice * g
      [] OTHER -> base

\* lines 167-179
GPUPodPrice(base, g, gm) ==
    CASE gm = "nvidia-tesla-t4"   -> base + 1000 * AutopilotPricing.NVIDIAT4PodGPUPrice * g
      [] gm = "nvidia-l4"         -> base + 1000 * AutopilotPricing.NVIDIAL4PodGPUPrice * g
      [] gm = "nvidia-tesla-a100" -> base + 1000 * AutopilotPricing.NVIDIAA10040GPodGPUPrice * g
      [] gm = "nvidia-a100-80gb"  -> base + 1000 * AutopilotPricing.NVIDIAA10080GPodGPUPrice * g
      [] OTHER -> 0

\* lines 67-133: the spot half of CalculatePricing
SpotPricing(c, m, s, g, gm, class, instanceType) ==
    LET P == AutopilotPricing
    IN  CASE class = ComputeClassPerformance ->
               PlusMachinePrice(ResourcePrice(P.SpotPerformanceCpuPricePremium,
                                              P.SpotPerformanceMemoryPricePremium,
                                              P.SpotPerformanceLocalSSDPricePremium, c, m, s),
                                instanceType, TRUE)
          [] class = ComputeClassAccelerator ->
               PlusMachinePrice(SpotAcceleratorPrice(
                                    ResourcePrice(P.SpotAcceleratorCpuPricePremium,
                                                  P.SpotAcceleratorMemoryGPUPricePremium,
                                                  P.AcceleratorLocalSSDPricePremium, c, m, s),
                                    g, gm),
                                instanceType, TRUE)
          [] class = ComputeClassGPUPod ->
               Return(SpotGPUPodPrice(ResourcePrice(P.SpotGPUPodvCPUPrice,
                                                    P.SpotGPUPodMemoryPrice,
                                                    P.SpotGPUPodLocalSSDPrice, c, m, s),
                                      g, gm))
          [] class = ComputeClassBalanced ->
               Return(ResourcePrice(P.SpotCpuPrice, P.SpotMemoryPrice, P.StoragePrice, c, m, s))
          [] class = ComputeClassScaleout ->
               Return(ResourcePrice(P.SpotCpuScaleoutPrice, P.SpotMemoryScaleoutPrice,
                                    P.StoragePrice, c, m, s))
          [] class = ComputeClassScaleoutArm ->
               Return(ResourcePrice(P.SpotArmCpuScaleoutPrice, P.SpotArmMemoryScaleoutPrice,
                                    P.StoragePrice, c, m, s))
          [] OTHER ->
               Return(ResourcePrice(P.SpotCpuPrice, P.SpotMemoryPrice, P.StoragePrice, c, m, s))

\* lines 135-193: the on-demand half of CalculatePricing
OnDemandPricing(c, m, s, g, gm, class, instanceType) ==
    LET P == AutopilotPricing
    IN  CASE class = ComputeClassPerformance ->
               PlusMachinePrice(ResourcePrice(P.PerformanceCpuPricePremium,
                                              P.PerformanceMemoryPricePremium,
                                              P.PerformanceLocalSSDPricePremium, c, m, s),
                                instanceType, FALSE)
          [] class = ComputeClassAccelerator ->
               PlusMachinePrice(AcceleratorPrice(
                                    ResourcePrice(P.AcceleratorCpuPricePremium,
                                                  P.AcceleratorMemoryGPUPricePremium,
                                                  P.AcceleratorLocalSSDPricePremium, c, m, s),
                                    g, gm),
                                instanceType, FALSE)
          [] class = ComputeClassGPUPod ->
               Return(GPUPodPrice(ResourcePrice(P.GPUPodvCPUPrice, P.GPUPodMemoryPrice,
                                                P.GPUPodLocalSSDPrice, c, m, s),
                                  g, gm))
          [] class = ComputeClassBalanced ->
               Return(ResourcePrice(P.CpuBalancedPrice, P.MemoryBalancedPrice,
                                    P.StoragePrice, c, m, s))
          [] class = ComputeClassScaleout ->
               Return(ResourcePrice(P.CpuScaleoutPrice, P.MemoryScaleoutPrice,
                                    P.StoragePrice, c, m, s))
          [] class = ComputeClassScaleoutArm ->
               Return(ResourcePrice(P.CpuArmScaleoutPrice, P.MemoryArmScaleoutPrice,
                                    P.StoragePrice, c, m, s))
          [] OTHER ->
               Return(ResourcePrice(P.CpuPrice, P.MemoryPrice, P.StoragePrice, c, m, s))

\* lines 65-194.  The outcome's value is the cost in thousandths of the
\* rate unit.
CalculatePricing(c, m, s, g, gm, class, instanceType, sp) ==
    IF sp THEN SpotPricing(c, m, s, g, gm, class, instanceType)
          ELSE OnDemandPricing(c, m, s, g, gm, class, instanceType)

(***************************************************************************)
(* Inputs: machine types, GPU models, configurations and price tables.     *)
(***************************************************************************)
E2 == <<"e", "2">>
N2 == <<"n", "2">>
T2A == <<"t", "2", "a">>
MEDIUM == <<"m", "e", "d", "i", "u", "m">>

\* a machine type <family>-<class>-<cores>
MachineTypeOf(family, classType, cores) ==
    family \o <<"-">> \o classType \o <<"-">> \o cores

\* the instance type of a workload whose node is not in the node map
NoInstanceType == <<>>
E2Medium == E2 \o <<"-">> \o MEDIUM
E2Standard4 == MachineTypeOf(E2, STANDARD, <<"4">>)
N2Highmem8 == MachineTypeOf(N2, HIGHMEM, <<"8">>)
T2AStandard4 == MachineTypeOf(T2A, STANDARD, <<"4">>)
C2Standard8 == MachineTypeOf(C2, STANDARD, <<"8">>)
C2DHighcpu4 == MachineTypeOf(C2D, HIGHCPU, <<"4">>)
H3Standard88 == MachineTypeOf(H3, STANDARD, <<"8", "8">>)
A2Highgpu1g == MachineTypeOf(A2, HIGHGPU, <<"1", "g">>)
A2Ultragpu2 == MachineTypeOf(A2, ULTRAGPU, <<"2">>)
A3Highgpu8 == MachineTypeOf(A3, HIGHGPU, <<"8">>)
G2Standard4 == MachineTypeOf(G2, STANDARD, <<"4">>)
C2DHighmem8 == MachineTypeOf(C2D, HIGHMEM, <<"8">>)
\* a machine type of a family that is not configured and whose name holds
\* the compute-optimized prefix c2 after its first character
XC2Standard4 == MachineTypeOf(<<"x">> \o C2, STANDARD, <<"4">>)

MachineTypes ==
    {NoInstanceType, E2Medium, E2Standard4, N2Highmem8, T2AStandard4, C2Standard8,
     C2DHighcpu4, H3Standard88, A2Highgpu1g, A2Ultragpu2, A3Highgpu8, G2Standard4,
     C2DHighmem8, XC2Standard4}

H100 == "nvidia-h100-80gb"

\* the models priced by CalculatePricing, the empty model of a pod with no
\* accelerator selector, and a model the code does not know
GpuModels ==
    {"nvidia-tesla-t4", "nvidia-l4", "nvidia-tesla-a100", "nvidia-a100-80gb", H100,
     "", "nvidia-tesla-v100"}

GpuCounts == 0..MaxGpu

\* an ini file with the three sections filled
SampleConfig ==
    [root   |-> [gce_compute_optimized_prefixed |-> C2 \o <<",">> \o C2D \o <<",">> \o H3,
                 gce_accelerator_optimized_prefixed |-> A2 \o <<",">> \o A3 \o <<",">> \o G2,
                 gce_arm64_prefix |-> T2A,
                 nvidia_h100_identifier |-> H100],
     ratios |-> [generalpurpose_min |-> 1, generalpurpose_max |-> 6,
                 balanced_min |-> 1, balanced_max |-> 8,
                 scaleout_min |-> 4, scaleout_max |-> 4,
                 performance_min |-> 1, performance_max |-> 8],
     limits |-> [generalpurpose_mcpu_max |-> 30000, generalpurpose_memory_max |-> 110000,
                 balanced_mcpu_max |-> 222000, balanced_memory_max |-> 851000,
                 scaleout_mcpu_max |-> 54000, scaleout_memory_max |-> 216000,
                 scaleout_arm_mcpu_max |-> 43000, scaleout_arm_memory_max |-> 172000,
                 performance_mcpu_max |-> 222000, performance_memory_max |-> 851000,
                 gpupod_t4_mcpu_min |-> 1000, gpupod_t4_mcpu_max |-> 46000,
                 gpupod_t4_memory_min |-> 1000, gpupod_t4_memory_max |-> 170000,
                 gpupod_l4_mcpu_min |-> 1000, gpupod_l4_mcpu_max |-> 31000,
                 gpupod_l4_memory_min |-> 1000, gpupod_l4_memory_max |-> 115000]]

\* the same file with the family c2d in both prefix lists
OverlapConfig ==
    [SampleConfig EXCEPT
        !.root.gce_accelerator_optimized_prefixed = A2 \o <<",">> \o A3 \o <<",">> \o C2D]

\* the same file with a balanced memory ceiling below the balanced mCPU
\* ceiling
LowBalancedMemoryConfig ==
    [SampleConfig EXCEPT !.limits.balanced_memory_max = 150000]

\* the same file with the sections ratios and limits missing
NoThresholdsConfig == [root |-> SampleConfig.root]

\* a file with no key at all
EmptyConfig == [root |-> [k \in {} |-> 0]]

\* the sample file with an empty value, a leading comma, a trailing comma
\* and a double comma in gce_compute_optimized_prefixed
EmptyValueConfig ==
    [SampleConfig EXCEPT !.root.gce_compute_optimized_prefixed = <<>>]
LeadingCommaConfig ==
    [SampleConfig EXCEPT !.root.gce_compute_optimized_prefixed = <<",">> \o C2 \o <<",">> \o C2D]
TrailingCommaConfig ==
    [SampleConfig EXCEPT !.root.gce_compute_optimized_prefixed = C2 \o <<",">> \o C2D \o <<",">>]
DoubleCommaConfig ==
    [SampleConfig EXCEPT !.root.gce_compute_optimized_prefixed = C2 \o <<",", ",">> \o C2D]

\* the files whose compute-optimized list has an empty entry, the file with
\* no key included
EmptyEntryConfigs ==
    {EmptyConfig, EmptyValueConfig, LeadingCommaConfig, TrailingCommaConfig,
     DoubleCommaConfig}

Configs ==
    {SampleConfig, OverlapConfig, LowBalancedMemoryConfig, NoThresholdsConfig, EmptyConfig}

\* a price table with a different rate in every field
SampleAutopilotPricing ==
    [StoragePrice |-> 3, CpuPrice |-> 5, MemoryPrice |-> 7,
     SpotCpuPrice |-> 9, SpotMemoryPrice |-> 11, CpuBalancedPrice |-> 13,
     MemoryBalancedPrice |-> 15, SpotCpuBalancedPrice |-> 17,
     SpotMemoryBalancedPrice |-> 19, CpuScaleoutPrice |-> 21,
     MemoryScaleoutPrice |-> 23, SpotCpuScaleoutPrice |-> 25,
     SpotMemoryScaleoutPrice |-> 27, CpuArmScaleoutPrice |-> 29,
     MemoryArmScaleoutPrice |-> 31, SpotArmCpuScaleoutPrice |-> 33,
     SpotArmMemoryScaleoutPrice |-> 35, GPUPodvCPUPrice |-> 37,
     GPUPodMemoryPrice |-> 39, GPUPodLocalSSDPrice |-> 41,
     NVIDIAL4PodGPUPrice |-> 43, NVIDIAT4PodGPUPrice |-> 45,
     NVIDIAA10040GPodGPUPrice |-> 47, NVIDIAA10080GPodGPUPrice |-> 49,
     SpotGPUPodvCPUPrice |-> 51, SpotGPUPodMemoryPrice |-> 53,
     SpotGPUPodLocalSSDPrice |-> 55, SpotGPUPodPDPricePremium |-> 57,
     SpotNVIDIAL4PodGPUPrice |-> 59, SpotNVIDIAT4PodGPUPrice |-> 61,
     SpotNVIDIAA10040GPodGPUPrice |-> 63,
     SpotNVIDIAA10080GPodGPUPrice |-> 65, PerformanceCpuPricePremium |-> 67,
     PerformanceMemoryPricePremium |-> 69, PerformancePDPricePremium |-> 71,
     PerformanceLocalSSDPricePremium |-> 73,
     SpotPerformanceCpuPricePremium |-> 75,
     SpotPerformanceMemoryPricePremium |-> 77,
     SpotPerformancePDPricePremium |-> 79,
     SpotPerformanceLocalSSDPricePremium |-> 81,
     AcceleratorCpuPricePremium |-> 83,
     AcceleratorMemoryGPUPricePremium |-> 85,
     AcceleratorPDPricePremium |-> 87,
     AcceleratorLocalSSDPricePremium |-> 89,
     AcceleratorT4GPUPricePremium |-> 91,
     AcceleratorL4GPUPricePremium |-> 93,
     AcceleratorA10040GGPUPricePremium |-> 95,
     AcceleratorA10080GGPUPricePremium |-> 97,
     AcceleratorH100GPUPricePremium |-> 99,
     SpotAcceleratorCpuPricePremium |-> 101,
     SpotAcceleratorMemoryGPUPricePremium |-> 103,
     SpotAcceleratorPDPricePremium |-> 105,
     SpotAcceleratorLocalSSDPricePremium |-> 107,
     SpotAcceleratorT4GPUPricePremium |-> 109,
     SpotAcceleratorL4GPUPricePremium |-> 111,
     SpotAcceleratorA10040GGPUPricePremium |-> 113,
     SpotAcceleratorA10080GGPUPricePremium |-> 115,
     SpotAcceleratorH100GPUPricePremium |-> 117]

SampleGCEPricing ==
    [H3CpuPrice |-> 2, H3MemoryPrice |-> 5, C2CpuPrice |-> 8,
     C2MemoryPrice |-> 11, C2DCpuPrice |-> 14, C2DMemoryPrice |-> 17,
     G2CpuPrice |-> 20, G2MemoryPrice |-> 23, A2CpuPrice |-> 26,
     A2MemoryPrice |-> 29, A3CpuPrice |-> 32, A3MemoryPrice |-> 35,
     SpotC2CpuPrice |-> 38, SpotC2MemoryPrice |-> 41, SpotC2DCpuPrice |-> 44,
     SpotC2DMemoryPrice |-> 47, SpotG2DCpuPrice |-> 50,
     SpotG2DMemoryPrice |-> 53, SpotA2CpuPrice |-> 56,
     SpotA2MemoryPrice |-> 59, SpotA3CpuPrice |-> 62,
     SpotA3MemoryPrice |-> 65]

\* the table of a region where nothing is priced
ZeroAutopilotPricing == [f \in DOMAIN SampleAutopilotPricing |-> 0]
ZeroGCEPricing == [f \in DOMAIN SampleGCEPricing |-> 0]

PriceTables ==
    {<<SampleAutopilotPricing, SampleGCEPricing>>, <<ZeroAutopilotPricing, ZeroGCEPricing>>}

(***************************************************************************)
(* The container loop of PopulateWorkloads, lines 277-322.  A cpu quantity *)
(* is held as its MilliValue (milli-cores), a memory or storage quantity   *)
(* as its number of bytes, a GPU quantity as its Value.  A key missing     *)
(* from a Requests map reads as the zero quantity.                         *)
(***************************************************************************)
\* lines 289, 290, 305, 306, 309, 310: the divisor "to get MiB"
MILLI_PER_MIB == 1000000000

\* q.MilliValue() / 1000000000 of a memory or storage quantity of so many
\* bytes; the MilliValue of a number of bytes is a thousand times the number
MiB(bytes) == (bytes * 1000) \div MILLI_PER_MIB

\* cpuUsage, memoryUsage, storageUsage, gpuUsage of one container
Usage(c, m, s, g) == [cpu |-> c, memory |-> m, storage |-> s, gpu |-> g]

\* lines 288-291: the usage of a container as its metrics give it
ObservedUsage(container) ==
    Usage(container.cpu, MiB(container.memory), MiB(container.storage), 0)

\* variant: the storage request is the value assigned at line 310
RaiseToRequests_StorageRequest(usage, specContainer) ==
    Usage(IF usage.cpu < specContainer.cpu THEN specContainer.cpu ELSE usage.cpu,
          IF usage.memory < MiB(specContainer.memory)
             THEN MiB(specContainer.memory) ELSE usage.memory,
          IF usage.storage < MiB(specContainer.storage)
             THEN MiB(specContainer.storage) ELSE usage.storage,
          specContainer.gpu)

\* lines 295-313: the body of the inner loop for a spec container of the
\* same name.  Line 310 assigns the memory request to the storage usage.
RaiseToRequests(usage, specContainer) ==
    Usage(IF usage.cpu < specContainer.cpu THEN specContainer.cpu ELSE usage.cpu,
          IF usage.memory < MiB(specContainer.memory)
             THEN MiB(specContainer.memory) ELSE usage.memory,
          IF usage.storage < MiB(specContainer.storage)
             THEN MiB(specContainer.memory) ELSE usage.storage,
          specContainer.gpu)

\* lines 293-315: the inner loop over pod.Spec.Containers, from index i on
RECURSIVE MatchRequests(_, _, _, _)
MatchRequests(usage, name, specs, i) ==
    IF i > Len(specs) THEN usage
    ELSE MatchRequests(IF specs[i].name = name THEN RaiseToRequests(usage, specs[i])
                                               ELSE usage,
                       name, specs, i + 1)

\* lines 286-315: what one container adds to the totals of the pod
EffectiveUsage(container, specs) ==
    MatchRequests(ObservedUsage(container), container.name, specs, 1)

\* ---- inputs of the container loop
\* at most MaxContainers containers in a pod
MaxContainers == 2

ContainerNames == {"app", "sidecar", "proxy"}

\* metrics of a container: idle; busy; storage in use
ContainerUsages ==
    {[cpu |-> 0, memory |-> 0, storage |-> 0],
     [cpu |-> 300, memory |-> 2000000, storage |-> 0],
     [cpu |-> 100, memory |-> 999999, storage |-> 2000000]}

\* requests of a container: none; cpu, memory and a larger storage; a GPU
ContainerRequests ==
    {[cpu |-> 0, memory |-> 0, storage |-> 0, gpu |-> 0],
     [cpu |-> 250, memory |-> 1000000, storage |-> 2000000, gpu |-> 0],
     [cpu |-> 250, memory |-> 2000000, storage |-> 1000000, gpu |-> 1]}

\* the lists of at most MaxContainers containers with different names, each
\* with a record of the set values
ContainerLists(values) ==
    UNION {{l \in [1..n -> {[k \in {"name"} |-> name] @@ r :
                               name \in ContainerNames, r \in values}] :
               \A i, j \in 1..n : i # j => l[i].name # l[j].name} : n \in 0..MaxContainers}

NoUsage == Usage(0, 0, 0, 0)

\* the state of the container loop outside PopulateWorkloads
NoContainers ==
    /\ containers = <<>> /\ specContainers = <<>>
    /\ podContainerCount = 0 /\ added = NoUsage

\* ---- price tables that differ in one sub-table
\* the spot rates of AutopilotPriceList (pricing.go lines 59-131)
AutopilotSpotFields ==
    {"SpotCpuPrice", "SpotMemoryPrice", "SpotCpuBalancedPrice", "SpotMemoryBalancedPrice",
     "SpotCpuScaleoutPrice", "SpotMemoryScaleoutPrice", "SpotArmCpuScaleoutPrice",
     "SpotArmMemoryScaleoutPrice", "SpotGPUPodvCPUPrice", "SpotGPUPodMemoryPrice",
     "SpotGPUPodLocalSSDPrice", "SpotGPUPodPDPricePremium", "SpotNVIDIAL4PodGPUPrice",
     "SpotNVIDIAT4PodGPUPrice", "SpotNVIDIAA10040GPodGPUPrice",
     "SpotNVIDIAA10080GPodGPUPrice", "SpotPerformanceCpuPricePremium",
     "SpotPerformanceMemoryPricePremium", "SpotPerformancePDPricePremium",
     "SpotPerformanceLocalSSDPricePremium", "SpotAcceleratorCpuPricePremium",
     "SpotAcceleratorMemoryGPUPricePremium", "SpotAcceleratorPDPricePremium",
     "SpotAcceleratorLocalSSDPricePremium", "SpotAcceleratorT4GPUPricePremium",
     "SpotAcceleratorL4GPUPricePremium", "SpotAcceleratorA10040GGPUPricePremium",
     "SpotAcceleratorA10080GGPUPricePremium", "SpotAcceleratorH100GPUPricePremium"}

\* the on-demand rates of AutopilotPriceList; StoragePrice is shared by both
\* spot modes
AutopilotOnDemandFields ==
    (DOMAIN SampleAutopilotPricing \ AutopilotSpotFields) \ {"StoragePrice"}

\* the spot rates of GCEPriceList (pricing.go lines 27-57)
GCESpotFields ==
    {"SpotC2CpuPrice", "SpotC2MemoryPrice", "SpotC2DCpuPrice", "SpotC2DMemoryPrice",
     "SpotG2DCpuPrice", "SpotG2DMemoryPrice", "SpotA2CpuPrice", "SpotA2MemoryPrice",
     "SpotA3CpuPrice", "SpotA3MemoryPrice"}

GCEOnDemandFields == DOMAIN SampleGCEPricing \ GCESpotFields

\* the table with every rate of the set fields raised by one
Raised(table, fields) ==
    [f \in DOMAIN table |-> IF f \in fields THEN table[f] + 1 ELSE table[f]]

\* the sample tables with other on-demand rates, and with other spot rates
OnDemandRaisedTables ==
    <<Raised(SampleAutopilotPricing, AutopilotOnDemandFields),
      Raised(SampleGCEPricing, GCEOnDemandFields)>>
SpotRaisedTables ==
    <<Raised(SampleAutopilotPricing, AutopilotSpotFields),
      Raised(SampleGCEPricing, GCESpotFields)>>

OtherTables == {OnDemandRaisedTables, SpotRaisedTables}

\* the state of a table comparison outside one
NoOtherTables ==
    /\ otherTables = <<SampleAutopilotPricing, SampleGCEPricing>>
    /\ firstCost = Return(0)

NoPod == [Name |-> "", NodeName |-> ""]
NoRows == [total |-> 0, oneYear |-> 0, threeYear |-> 0]

\* the state of the pod loop outside PopulateWorkloads
NoCluster ==
    /\ nodes = <<>> /\ workloads = <<>>
    /\ podMetricsList = <<>> /\ pod = NoPod

\* the state of the display and of the catalog outside them
NoReport ==
    /\ rows = NoRows /\ skus = <<>>

(***************************************************************************)
(* State machines.  Each operation is applied to inputs drawn by Init.     *)
(***************************************************************************)
NoClass == ""
NoCost == Return(0)

\* cpu 0..MaxMilli and the values of the tests; memory and storage on both
\* sides of their minimums; -1 is a value the caller never passes
CpuInputs == (0..MaxMilli) \cup {-1, 1000, 1618}
MemoryInputs == {-1, 0, 49, 52, 250, 1000, 1700}
StorageInputs == {-1, 0, 9, 10, 900, 1000}

\* classifier inputs on both sides of the thresholds of SampleConfig and the
\* values of the tests; cpu 0 is the value the normalizer rules out
ClassifierCpu == {0, 50, 10000, 35000, 43000, 100000, 250000}
ClassifierMemory == {0, 52, 10000, 140000, 172000, 500000, 900000}

\* resource triples priced
PricedTriples ==
    {Triple(0, 0, 0), Triple(50, 52, 10), Triple(250, 1000, 900),
     Triple(4000, 16000, 10000)}

\* summed usage of a pod, before ValidateAndRoundResources
PodTriples ==
    {Triple(0, 0, 0), Triple(249, 49, 9), Triple(1618, 1700, 900),
     Triple(35000, 140000, 10), Triple(40000, 80000, 10000)}

\* ---- ValidateAndRoundResources on a triple, and on its own result
InitNormalize ==
    /\ pc = "start"
    /\ mCPU \in CpuInputs /\ memory \in MemoryInputs /\ storage \in StorageInputs
    /\ raw = Triple(mCPU, memory, storage)
    /\ first = raw
    /\ gpu = 0 /\ gpuModel = "" /\ machineType = NoInstanceType
    /\ arm64 = FALSE /\ spot = FALSE
    /\ computeClass = NoClass /\ cost = NoCost
    /\ Config = SampleConfig
    /\ AutopilotPricing = SampleAutopilotPricing /\ GCEPricing = SampleGCEPricing
    /\ NoContainers /\ NoOtherTables /\ NoCluster /\ NoReport

\* line 325: cpu, memory, storage = ValidateAndRoundResources(cpu, memory, storage)
Normalize ==
    /\ pc = "start"
    /\ LET t == ValidateAndRoundResources(mCPU, memory, storage)
       IN  /\ mCPU' = t.cpu /\ memory' = t.memory /\ storage' = t.storage
           /\ first' = t
    /\ pc' = "normalized"
    /\ UNCHANGED <<raw, gpu, gpuModel, machineType, arm64, spot, computeClass, cost,
                   Config, AutopilotPricing, GCEPricing, podVars, tableVars, clusterVars, reportVars>>

\* ValidateAndRoundResources applied to its own result
Renormalize ==
    /\ pc = "normalized"
    /\ LET t == ValidateAndRoundResources(mCPU, memory, storage)
       IN  mCPU' = t.cpu /\ memory' = t.memory /\ storage' = t.storage
    /\ pc' = "renormalized"
    /\ UNCHANGED <<raw, first, gpu, gpuModel, machineType, arm64, spot, computeClass,
                   cost, Config, AutopilotPricing, GCEPricing, podVars, tableVars, clusterVars, reportVars>>

NextNormalize == Normalize \/ Renormalize

SpecNormalize == InitNormalize /\ [][NextNormalize]_vars

\* ---- DecideComputeClass on any arguments
InitClassify ==
    /\ pc = "start"
    /\ mCPU \in ClassifierCpu /\ memory \in ClassifierMemory /\ storage = STORAGE_MIN
    /\ raw = Triple(mCPU, memory, storage)
    /\ first = raw
    /\ gpu \in GpuCounts /\ gpuModel \in GpuModels /\ machineType \in MachineTypes
    /\ arm64 \in BOOLEAN /\ spot = FALSE
    /\ computeClass = NoClass /\ cost = NoCost
    /\ Config \in Configs
    /\ AutopilotPricing = SampleAutopilotPricing /\ GCEPricing = SampleGCEPricing
    /\ NoContainers /\ NoOtherTables /\ NoCluster /\ NoReport

\* a call of DecideComputeClass
Classify ==
    /\ pc = "start"
    /\ computeClass' = DecideComputeClass("test-pod", machineType, mCPU, memory, gpu,
                                          gpuModel, arm64)
    /\ pc' = "classified"
    /\ UNCHANGED <<mCPU, memory, storage, raw, first, gpu, gpuModel, machineType, arm64,
                   spot, cost, Config, AutopilotPricing, GCEPricing, podVars, tableVars, clusterVars, reportVars>>

NextClassify == Classify

SpecClassify == InitClassify /\ [][NextClassify]_vars

\* ---- DecideComputeClass under a configuration whose compute-optimized
\* list has an empty entry
InitEmptyEntry ==
    /\ pc = "start"
    /\ mCPU \in ClassifierCpu /\ memory \in ClassifierMemory /\ storage = STORAGE_MIN
    /\ raw = Triple(mCPU, memory, storage)
    /\ first = raw
    /\ gpu \in GpuCounts /\ gpuModel \in GpuModels /\ machineType \in MachineTypes
    /\ arm64 \in BOOLEAN /\ spot = FALSE
    /\ computeClass = NoClass /\ cost = NoCost
    /\ Config \in EmptyEntryConfigs
    /\ AutopilotPricing = SampleAutopilotPricing /\ GCEPricing = SampleGCEPricing
    /\ NoContainers /\ NoOtherTables /\ NoCluster /\ NoReport

SpecEmptyEntry == InitEmptyEntry /\ [][NextClassify]_vars

\* ---- CalculatePricing on any arguments
InitPricing ==
    /\ pc = "start"
    /\ raw \in PricedTriples
    /\ mCPU = raw.cpu /\ memory = raw.memory /\ storage = raw.storage
    /\ first = raw
    /\ gpu \in GpuCounts /\ gpuModel \in GpuModels /\ machineType \in MachineTypes
    /\ arm64 = FALSE /\ spot \in BOOLEAN
    /\ computeClass \in ComputeClasses /\ cost = NoCost
    /\ Config = SampleConfig
    /\ \E tables \in PriceTables : AutopilotPricing = tables[1] /\ GCEPricing = tables[2]
    /\ NoContainers /\ NoOtherTables /\ NoCluster /\ NoReport

\* a call of CalculatePricing; a panic ends the program
Price ==
    /\ pc = "start"
    /\ cost' = CalculatePricing(mCPU, memory, storage, gpu, gpuModel, computeClass,
                                machineType, spot)
    /\ pc' = IF cost'.panic THEN "panic" ELSE "priced"
    /\ UNCHANGED <<mCPU, memory, storage, raw, first, gpu, gpuModel, machineType, arm64,
                   spot, computeClass, Config, AutopilotPricing, GCEPricing, podVars, tableVars, clusterVars, reportVars>>

NextPricing == Price

SpecPricing == InitPricing /\ [][NextPricing]_vars

\* ---- CalculatePricing on the same arguments under two pairs of price
\* tables
InitTables ==
    /\ pc = "start"
    /\ raw \in PricedTriples
    /\ mCPU = raw.cpu /\ memory = raw.memory /\ storage = raw.storage
    /\ first = raw
    /\ gpu \in GpuCounts /\ gpuModel \in GpuModels /\ machineType \in MachineTypes
    /\ arm64 = FALSE /\ spot \in BOOLEAN
    /\ computeClass \in ComputeClasses /\ cost = NoCost
    /\ Config = SampleConfig
    /\ AutopilotPricing = SampleAutopilotPricing /\ GCEPricing = SampleGCEPricing
    /\ otherTables \in OtherTables /\ firstCost = Return(0)
    /\ NoContainers /\ NoCluster /\ NoReport

\* a call of CalculatePricing under the first pair of tables
PriceFirst ==
    /\ pc = "start"
    /\ cost' = CalculatePricing(mCPU, memory, storage, gpu, gpuModel, computeClass,
                                machineType, spot)
    /\ firstCost' = cost'
    /\ pc' = "priced"
    /\ UNCHANGED <<mCPU, memory, storage, raw, first, gpu, gpuModel, machineType, arm64,
                   spot, computeClass, Config, AutopilotPricing, GCEPricing, podVars,
                   otherTables, clusterVars, reportVars>>

\* the price tables are replaced by the second pair
SwapTables ==
    /\ pc = "priced"
    /\ AutopilotPricing' = otherTables[1] /\ GCEPricing' = otherTables[2]
    /\ pc' = "swapped"
    /\ UNCHANGED <<mCPU, memory, storage, raw, first, gpu, gpuModel, machineType, arm64,
                   spot, computeClass, cost, Config, podVars, tableVars, clusterVars, reportVars>>

\* the same call of CalculatePricing under the second pair of tables
PriceOther ==
    /\ pc = "swapped"
    /\ cost' = CalculatePricing(mCPU, memory, storage, gpu, gpuModel, computeClass,
                                machineType, spot)
    /\ pc' = "repriced"
    /\ UNCHANGED <<mCPU, memory, storage, raw, first, gpu, gpuModel, machineType, arm64,
                   spot, computeClass, Config, AutopilotPricing, GCEPricing, podVars,
                   tableVars, clusterVars, reportVars>>

NextTables == PriceFirst \/ SwapTables \/ PriceOther

SpecTables == InitTables /\ [][NextTables]_vars

\* ---- the container loop of PopulateWorkloads, lines 277-322, on one pod
InitSum ==
    /\ pc = "summing"
    /\ containers \in ContainerLists(ContainerUsages)
    /\ specContainers \in ContainerLists(ContainerRequests)
    /\ podContainerCount = 0 /\ added = NoUsage
    /\ mCPU = 0 /\ memory = 0 /\ storage = 0 /\ gpu = 0
    /\ raw = Triple(0, 0, 0) /\ first = raw
    /\ gpuModel = "" /\ machineType = NoInstanceType
    /\ arm64 = FALSE /\ spot = FALSE
    /\ computeClass = NoClass /\ cost = NoCost
    /\ Config = SampleConfig
    /\ AutopilotPricing = SampleAutopilotPricing /\ GCEPricing = SampleGCEPricing
    /\ NoOtherTables /\ NoCluster /\ NoReport

\* lines 286-322: one iteration of the loop over v.Containers
SumContainer ==
    /\ pc = "summing"
    /\ podContainerCount < Len(containers)
    /\ LET u == EffectiveUsage(containers[podContainerCount + 1], specContainers)
       IN  /\ added' = u
           /\ mCPU' = mCPU + u.cpu
           /\ memory' = memory + u.memory
           /\ storage' = storage + u.storage
           /\ gpu' = gpu + u.gpu
    /\ podContainerCount' = podContainerCount + 1
    /\ UNCHANGED <<pc, raw, first, gpuModel, machineType, arm64, spot, computeClass,
                   cost, Config, AutopilotPricing, GCEPricing, containers,
                   specContainers, tableVars, clusterVars, reportVars>>

\* line 322: the loop ends with the summed usage of the pod
EndSum ==
    /\ pc = "summing"
    /\ podContainerCount = Len(containers)
    /\ raw' = Triple(mCPU, memory, storage)
    /\ first' = raw'
    /\ pc' = "summed"
    /\ UNCHANGED <<mCPU, memory, storage, gpu, gpuModel, machineType, arm64, spot,
                   computeClass, cost, Config, AutopilotPricing, GCEPricing, podVars, tableVars, clusterVars, reportVars>>

NextSum == SumContainer \/ EndSum

SpecSum == InitSum /\ [][NextSum]_vars

\* ---- the body of the pod loop of PopulateWorkloads, lines 324-337, on the
\* summed usage of one pod
Init ==
    /\ pc = "summed"
    /\ raw \in PodTriples
    /\ mCPU = raw.cpu /\ memory = raw.memory /\ storage = raw.storage
    /\ first = raw
    /\ gpu \in GpuCounts /\ gpuModel \in GpuModels /\ machineType \in MachineTypes
    /\ arm64 = FALSE /\ spot \in BOOLEAN
    /\ computeClass = NoClass /\ cost = NoCost
    /\ Config \in Configs
    /\ \E tables \in PriceTables : AutopilotPricing = tables[1] /\ GCEPricing = tables[2]
    /\ NoContainers /\ NoOtherTables /\ NoCluster /\ NoReport

\* variant: the summed usage goes on as it is
PodNormalize_Skipped ==
    /\ pc = "summed"
    /\ first' = Triple(mCPU, memory, storage)
    /\ pc' = "normalized"
    /\ UNCHANGED <<mCPU, memory, storage, raw, gpu, gpuModel, machineType, arm64, spot,
                   computeClass, cost, Config, AutopilotPricing, GCEPricing, podVars,
                   tableVars, clusterVars, reportVars>>

\* line 325
PodNormalize ==
    /\ pc = "summed"
    /\ LET t == ValidateAndRoundResources(mCPU, memory, storage)
       IN  /\ mCPU' = t.cpu /\ memory' = t.memory /\ storage' = t.storage
           /\ first' = t
    /\ pc' = "normalized"
    /\ UNCHANGED <<raw, gpu, gpuModel, machineType, arm64, spot, computeClass, cost,
                   Config, AutopilotPricing, GCEPricing, podVars, tableVars, clusterVars, reportVars>>

\* lines 327-335: the ARM flag is strings.Contains(instance type, gce_arm64_prefix)
PodClassify ==
    /\ pc = "normalized"
    /\ arm64' = Contains(machineType, KeyString("gce_arm64_prefix"))
    /\ computeClass' = DecideComputeClass("pod", machineType, mCPU, memory, gpu,
                                          gpuModel, arm64')
    /\ pc' = "classified"
    /\ UNCHANGED <<mCPU, memory, storage, raw, first, gpu, gpuModel, machineType, spot,
                   cost, Config, AutopilotPricing, GCEPricing, podVars, tableVars, clusterVars, reportVars>>

\* line 337; a panic ends the program
PodPrice ==
    /\ pc = "classified"
    /\ cost' = CalculatePricing(mCPU, memory, storage, gpu, gpuModel, computeClass,
                                machineType, spot)
    /\ pc' = IF cost'.panic THEN "panic" ELSE "priced"
    /\ UNCHANGED <<mCPU, memory, storage, raw, first, gpu, gpuModel, machineType, arm64,
                   spot, computeClass, Config, AutopilotPricing, GCEPricing, podVars, tableVars, clusterVars, reportVars>>

Next == PodNormalize \/ PodClassify \/ PodPrice

Spec == Init /\ [][Next]_vars

(***************************************************************************)
(* PopulateWorkloads, lines 263-364: the loop over the pods that have      *)
(* metrics, on the node map of cluster.GetClusterNodes.                    *)
(***************************************************************************)
\* a node as cluster.GetClusterNodes builds it: no workload, cost 0
Node(name, instanceType, sp) ==
    [Name |-> name, InstanceType |-> instanceType, Spot |-> sp, Cost |-> 0,
     Workloads |-> <<>>]

\* an on-demand e2 node, a spot c2 node and an on-demand ARM node
SampleNodes ==
    [n \in {"node-a", "node-b", "node-c"} |->
        CASE n = "node-a" -> Node(n, E2Standard4, FALSE)
          [] n = "node-b" -> Node(n, C2Standard8, TRUE)
          [] n = "node-c" -> Node(n, T2AStandard4, FALSE)]

\* nodes[name] of a Go map: the zero Node when the key is missing
NodeOf(name) ==
    IF name \in DOMAIN nodes THEN nodes[name] ELSE Node("", NoInstanceType, FALSE)

Metrics(name, c, m, s) == [name |-> name, cpu |-> c, memory |-> m, storage |-> s]
Requests(name, c, m, s, g) ==
    [name |-> name, cpu |-> c, memory |-> m, storage |-> s, gpu |-> g]

\* a pod: its metrics (v) and its description (cluster.DescribePod)
PodOf(name, nodeName, selector, metrics, specs) ==
    [Name |-> name, NodeName |-> nodeName, NodeSelector |-> selector,
     Containers |-> metrics, SpecContainers |-> specs]

\* a pod with no container; a pod whose container uses and requests
\* nothing; pods of one and two containers on the e2 and the spot c2 node; a
\* pod on the ARM node; a pod with a GPU request; two pods whose node is not
\* in the node map, one with the flagship selector
SamplePods ==
    {PodOf("idle", "node-a", "", <<>>, <<>>),
     PodOf("quiet", "node-b", "", <<Metrics("app", 0, 0, 0)>>,
           <<Requests("app", 0, 0, 0, 0)>>),
     PodOf("web", "node-a", "", <<Metrics("app", 300, 2000000, 0)>>,
           <<Requests("app", 250, 1000000, 2000000, 0)>>),
     PodOf("batch", "node-b", "",
           <<Metrics("app", 300, 2000000, 0), Metrics("sidecar", 100, 999999, 2000000)>>,
           <<Requests("app", 250, 1000000, 2000000, 0)>>),
     PodOf("edge", "node-c", "", <<Metrics("app", 100, 999999, 2000000)>>, <<>>),
     PodOf("trainer", "node-a", "nvidia-tesla-t4", <<Metrics("app", 300, 2000000, 0)>>,
           <<Requests("app", 250, 2000000, 1000000, 1)>>),
     PodOf("stray", "gone", "", <<Metrics("app", 300, 2000000, 0)>>, <<>>),
     PodOf("lost", "gone", H100, <<>>, <<>>)}

\* at most MaxPods pods have metrics
MaxPods == 3

\* the lists of at most MaxPods different pods
PodLists ==
    UNION {{l \in [1..n -> SamplePods] : \A i, j \in 1..n : i # j => l[i] # l[j]} :
               n \in 0..MaxPods}

InitPopulate ==
    /\ pc = "loop"
    /\ nodes = SampleNodes /\ workloads = <<>>
    /\ podMetricsList \in PodLists /\ pod = NoPod
    /\ NoContainers
    /\ mCPU = 0 /\ memory = 0 /\ storage = 0 /\ gpu = 0
    /\ raw = Triple(0, 0, 0) /\ first = raw
    /\ gpuModel = "" /\ machineType = NoInstanceType
    /\ arm64 = FALSE /\ spot = FALSE
    /\ computeClass = NoClass /\ cost = NoCost
    /\ Config = SampleConfig
    /\ AutopilotPricing = SampleAutopilotPricing /\ GCEPricing = SampleGCEPricing
    /\ NoOtherTables /\ NoReport

\* lines 271-284: the next pod is described and its totals start at 0.
\* The instance type and the spot flag that lines 329, 334 and 337 read from
\* nodes[pod.Spec.NodeName] are those of the map at this point: the loop
\* changes no InstanceType and no Spot.
DescribePod ==
    /\ pc = "loop"
    /\ podMetricsList # <<>>
    /\ pod' = Head(podMetricsList)
    /\ containers' = pod'.Containers /\ specContainers' = pod'.SpecContainers
    /\ podContainerCount' = 0 /\ added' = NoUsage
    /\ mCPU' = 0 /\ memory' = 0 /\ storage' = 0 /\ gpu' = 0
    /\ raw' = Triple(0, 0, 0) /\ first' = raw'
    /\ gpuModel' = pod'.NodeSelector
    /\ machineType' = NodeOf(pod'.NodeName).InstanceType
    /\ spot' = NodeOf(pod'.NodeName).Spot
    /\ arm64' = FALSE /\ computeClass' = NoClass /\ cost' = NoCost
    /\ pc' = "summing"
    /\ UNCHANGED <<Config, AutopilotPricing, GCEPricing, tableVars, nodes, workloads,
                   podMetricsList, reportVars>>

\* lines 273-275: cluster.DescribePod fails and PopulateWorkloads returns
\* nil and the error; the list of the workloads processed so far is
\* dropped with the call, the node map keeps what was added to it
DescribePodFails ==
    /\ pc = "loop"
    /\ podMetricsList # <<>>
    /\ pc' = "failed"
    /\ UNCHANGED <<mCPU, memory, storage, raw, first, gpu, gpuModel, machineType, arm64,
                   spot, computeClass, cost, Config, AutopilotPricing, GCEPricing,
                   podVars, tableVars, clusterVars, reportVars>>

\* lines 339-350
WorkloadObject ==
    [Name |-> pod.Name, Containers |-> podContainerCount, Node_name |-> pod.NodeName,
     Cpu |-> mCPU, Memory |-> memory, Storage |-> storage,
     AcceleratorType |-> gpuModel, AcceleratorAmount |-> gpu,
     Cost |-> cost.value, ComputeClass |-> computeClass]

\* variant: the workload is appended to its node and the node's cost is
\* left as it was
AppendWorkload_CostNotAdded ==
    /\ pc = "priced"
    /\ workloads' = Append(workloads, WorkloadObject)
    /\ nodes' = IF pod.NodeName \in DOMAIN nodes
                THEN [nodes EXCEPT ![pod.NodeName].Workloads = Append(@, WorkloadObject)]
                ELSE nodes
    /\ podMetricsList' = Tail(podMetricsList)
    /\ pc' = "loop"
    /\ UNCHANGED <<mCPU, memory, storage, raw, first, gpu, gpuModel, machineType, arm64,
                   spot, computeClass, cost, Config, AutopilotPricing, GCEPricing,
                   podVars, tableVars, pod, reportVars>>

\* lines 352-358: the workload joins the result list and, when its node is
\* a key of the map, the list and the cost of that node
AppendWorkload ==
    /\ pc = "priced"
    /\ workloads' = Append(workloads, WorkloadObject)
    /\ nodes' = IF pod.NodeName \in DOMAIN nodes
                THEN [nodes EXCEPT ![pod.NodeName].Workloads = Append(@, WorkloadObject),
                                   ![pod.NodeName].Cost = @ + cost.value]
                ELSE nodes
    /\ podMetricsList' = Tail(podMetricsList)
    /\ pc' = "loop"
    /\ UNCHANGED <<mCPU, memory, storage, raw, first, gpu, gpuModel, machineType, arm64,
                   spot, computeClass, cost, Config, AutopilotPricing, GCEPricing,
                   podVars, tableVars, pod, reportVars>>

\* line 362
ReturnWorkloads ==
    /\ pc = "loop"
    /\ podMetricsList = <<>>
    /\ pc' = "returned"
    /\ UNCHANGED <<mCPU, memory, storage, raw, first, gpu, gpuModel, machineType, arm64,
                   spot, computeClass, cost, Config, AutopilotPricing, GCEPricing,
                   podVars, tableVars, clusterVars, reportVars>>

(***************************************************************************)
(* DisplayWorkloadTable: the three total rows.  A cost is held in          *)
(* thousandths and a discount factor in hundredths, so the amount of a row *)
(* is held in hundred-thousandths.                                         *)
(***************************************************************************)
\* calculator.CLUSTER_FEE = 0.1, in thousandths
CLUSTER_FEE == 100

\* the factors of the section "discounts": 1 (also the value when the key
\* cannot be read), 0.8 and 0.55, in hundredths
NO_DISCOUNT == 100
Discounts == {NO_DISCOUNT, 80, 55}

\* the sum of the Cost of the workloads of a list, from index i on
RECURSIVE SumCost(_, _)
SumCost(list, i) ==
    IF i > Len(list) THEN 0 ELSE list[i].Cost + SumCost(list, i + 1)

\* the sum over a set of node names of the cost of their workloads
RECURSIVE SumOverNodes(_)
SumOverNodes(names) ==
    IF names = {} THEN 0
    ELSE LET n == CHOOSE x \in names : TRUE
         IN  SumCost(nodes[n].Workloads, 1) + SumOverNodes(names \ {n})

\* lines 105-116: totalCostSpot and totalCost after the loops over the
\* nodes and their workloads
TotalCostSpot == SumOverNodes({n \in DOMAIN nodes : nodes[n].Spot})
TotalCost == SumOverNodes({n \in DOMAIN nodes : ~nodes[n].Spot})

\* strconv.FormatFloat(x, 'G', 7, 64): the amount rounded to seven
\* significant digits, to the even neighbour half-way
SignificantDigits == 7

RECURSIVE UnitOfLastDigit(_, _)
UnitOfLastDigit(x, unit) ==
    IF x \div unit < 10000000 THEN unit ELSE UnitOfLastDigit(x, unit * 10)

FormatFloat(x) ==
    LET unit == UnitOfLastDigit(x, 1)
        q    == x \div unit
        r    == x % unit
    IN  IF 2 * r > unit \/ (2 * r = unit /\ q % 2 = 1) THEN (q + 1) * unit ELSE q * unit

\* lines 133-135: the three rows appended after the workload rows
TotalRows(oneYearDiscount, threeYearDiscount, clusterFee) ==
    [total     |-> FormatFloat(100 * (TotalCost + clusterFee)),
     oneYear   |-> FormatFloat((100 * TotalCostSpot + TotalCost * oneYearDiscount)
                               + 100 * clusterFee),
     threeYear |-> FormatFloat((100 * TotalCostSpot + TotalCost * threeYearDiscount)
                               + 100 * clusterFee),
     oneYearDiscount |-> oneYearDiscount, threeYearDiscount |-> threeYearDiscount,
     clusterFee |-> clusterFee]

\* main, lines 130-148: the table is displayed after PopulateWorkloads has
\* returned the workloads
DisplayWorkloadTable ==
    /\ pc = "returned"
    /\ \E oneYearDiscount \in Discounts, threeYearDiscount \in Discounts :
           rows' = TotalRows(oneYearDiscount, threeYearDiscount, CLUSTER_FEE)
    /\ pc' = "displayed"
    /\ UNCHANGED <<mCPU, memory, storage, raw, first, gpu, gpuModel, machineType, arm64,
                   spot, computeClass, cost, Config, AutopilotPricing, GCEPricing,
                   podVars, tableVars, clusterVars, skus>>

NextPopulate ==
    \/ DescribePod \/ DescribePodFails
    \/ SumContainer \/ EndSum
    \/ PodNormalize \/ PodClassify \/ PodPrice
    \/ AppendWorkload \/ ReturnWorkloads
    \/ DisplayWorkloadTable

SpecPopulate == InitPopulate /\ [][NextPopulate]_vars

(***************************************************************************)
(* GetAutopilotPricing, pricing.go lines 261-521: the price list is filled *)
(* from the SKUs of the billing catalog.  A price is held in billionths.   *)
(***************************************************************************)
\* strings.Join(fields, sep)
RECURSIVE Join(_, _)
Join(fields, sep) ==
    IF Len(fields) = 0 THEN <<>>
    ELSE IF Len(fields) = 1 THEN fields[1]
    ELSE fields[1] \o <<sep>> \o Join(Tail(fields), sep)

\* lines 328-338: a zone is cut down to its region
RegionOf(location) ==
    LET fields == Split(location, "-")
    IN  IF Len(fields) > 2 THEN Join(SubSeq(fields, 1, Len(fields) - 1), "-")
        ELSE location

\* lines 354-357: decimal + mantissa, the price times 1000000000
NANOS == 1000000000
SkuPrice(sku) == sku.Units * NANOS + sku.Nanos * sku.DisplayQuantity

\* lines 359-510: the fields that the case of a description assigns, the
\* description being the name followed by the region in parentheses.  A
\* case with no statement assigns nothing (Go has no fall-through), and of
\* two cases of the same description the first is taken.
SkuFields(name) ==
    CASE name = "Autopilot Pod Ephemeral Storage Requests" -> {"StoragePrice"}
      [] name = "Autopilot Pod Memory Requests" -> {"MemoryPrice"}
      [] name = "Autopilot Pod mCPU Requests" -> {"CpuPrice"}
      [] name = "Autopilot Balanced Pod Memory Requests" -> {"MemoryBalancedPrice"}
      [] name = "Autopilot Balanced Pod mCPU Requests" -> {"CpuBalancedPrice"}
      [] name = "Autopilot Scale-Out x86 Pod Memory Requests" -> {"MemoryScaleoutPrice"}
      [] name = "Autopilot Scale-Out x86 Pod mCPU Requests" -> {"CpuScaleoutPrice"}
      [] name = "Autopilot Scale-Out Arm Spot Pod Memory Requests" ->
           {"MemoryArmScaleoutPrice"}
      [] name = "Autopilot Scale-Out Arm Spot Pod mCPU Requests" -> {"CpuArmScaleoutPrice"}
      [] name = "Autopilot Spot Pod Memory Requests" -> {"SpotMemoryPrice"}
      [] name = "Autopilot Spot Pod mCPU Requests" -> {"SpotCpuPrice"}
      [] name = "Autopilot Balanced Spot Pod Memory Requests" -> {"SpotMemoryBalancedPrice"}
      [] name = "Autopilot Balanced Spot Pod mCPU Requests" -> {"SpotCpuBalancedPrice"}
      [] name = "Autopilot Scale-Out x86 Spot Pod Memory Requests" ->
           {"SpotMemoryScaleoutPrice"}
      [] name = "Autopilot Scale-Out x86 Spot Pod mCPU Requests" -> {"SpotCpuScaleoutPrice"}
      [] name = "Autopilot NVIDIA T4 Pod mCPU Requests" -> {}
      [] name = "Autopilot NVIDIA L4 Pod mCPU Requests" -> {}
      [] name = "Autopilot NVIDIA A100 Pod mCPU Requests" -> {}
      [] name = "Autopilot NVIDIA A100 80GB Pod mCPU Requests" -> {"GPUPodvCPUPrice"}
      [] name = "Autopilot NVIDIA T4 Pod Memory Requests" -> {}
      [] name = "Autopilot NVIDIA L4 Pod Memory Requests" -> {}
      [] name = "Autopilot NVIDIA A100 Pod Memory Requests" -> {}
      [] name = "Autopilot NVIDIA A100 80GB Pod Memory Requests" -> {"GPUPodMemoryPrice"}
      [] name = "Autopilot NVIDIA T4 Pod GPU Requests" -> {"NVIDIAT4PodGPUPrice"}
      [] name = "Autopilot NVIDIA L4 Pod GPU Requests" -> {"NVIDIAL4PodGPUPrice"}
      [] name = "Autopilot NVIDIA A100 Pod GPU Requests" -> {"NVIDIAA10040GPodGPUPrice"}
      [] name = "Autopilot NVIDIA A100 80GB Pod GPU Requests" ->
           {"NVIDIAA10080GPodGPUPrice"}
      [] name = "Autopilot GPU Pod Local SSD" -> {"SpotGPUPodLocalSSDPrice"}
      [] name = "Autopilot NVIDIA T4 Spot Pod mCPU Requests" -> {}
      [] name = "Autopilot NVIDIA L4 Spot Pod mCPU Requests" -> {}
      [] name = "Autopilot NVIDIA A100 Spot Pod mCPU Requests" -> {}
      [] name = "Autopilot NVIDIA A100 80GB Spot Pod mCPU Requests" -> {"GPUPodvCPUPrice"}
      [] name = "Autopilot NVIDIA T4 Spot Pod Memory Requests" -> {}
      [] name = "Autopilot NVIDIA L4 Spot Pod Memory Requests" -> {}
      [] name = "Autopilot NVIDIA A100 Spot Pod Memory Requests" -> {}
      [] name = "Autopilot NVIDIA A100 80GB Spot Pod Memory Requests" ->
           {"GPUPodMemoryPrice"}
      [] name = "Autopilot NVIDIA T4 Spot Pod GPU Requests" -> {"NVIDIAT4PodGPUPrice"}
      [] name = "Autopilot NVIDIA L4 Spot Pod GPU Requests" -> {"NVIDIAL4PodGPUPrice"}
      [] name = "Autopilot NVIDIA A100 Spot Pod GPU Requests" ->
           {"NVIDIAA10040GPodGPUPrice"}
      [] name = "Autopilot NVIDIA A100 80GB Spot Pod GPU Requests" ->
           {"NVIDIAA10080GPodGPUPrice"}
      [] name = "Autopilot GPU Spot Pod Local SSD" -> {"SpotGPUPodLocalSSDPrice"}
      [] name = "Autopilot PD Balanced Premium" ->
           {"PerformancePDPricePremium", "SpotPerformancePDPricePremium",
            "AcceleratorPDPricePremium", "SpotAcceleratorPDPricePremium"}
      [] name = "Autopilot Performance CPU Premium" -> {"PerformanceCpuPricePremium"}
      [] name = "Autopilot Performance Memory Premium" -> {"PerformanceMemoryPricePremium"}
      [] name = "Autopilot Local SSD Premium" ->
           {"PerformanceLocalSSDPricePremium", "AcceleratorLocalSSDPricePremium"}
      [] name = "Autopilot Spot PD Balanced Premium" ->
           {"PerformancePDPricePremium", "SpotPerformancePDPricePremium",
            "AcceleratorPDPricePremium", "SpotAcceleratorPDPricePremium"}
      [] name = "Autopilot Performance Spot CPU Premium" ->
           {"SpotPerformanceCpuPricePremium"}
      [] name = "Autopilot Performance Spot Memory Premium" ->
           {"SpotPerformanceMemoryPricePremium"}
      [] name = "Autopilot Local SSD Spot Premium" ->
           {"SpotPerformanceLocalSSDPricePremium", "SpotAcceleratorLocalSSDPricePremium"}
      [] name = "Autopilot Accelerator CPU Premium" -> {"AcceleratorCpuPricePremium"}
      [] name = "Autopilot Accelerator Memory Premium" ->
           {"AcceleratorMemoryGPUPricePremium"}
      [] name = "Autopilot T4 Premium" -> {"AcceleratorT4GPUPricePremium"}
      [] name = "Autopilot L4 Premium" -> {"AcceleratorL4GPUPricePremium"}
      [] name = "Autopilot A100 40GB Premium" -> {"AcceleratorA10040GGPUPricePremium"}
      [] name = "Autopilot A100 80GB Premium" -> {"AcceleratorA10080GGPUPricePremium"}
      [] name = "Autopilot H100 80GB Premium" -> {"AcceleratorH100GPUPricePremium"}
      [] name = "Autopilot Accelerator Spot CPU Premium" ->
           {"SpotAcceleratorCpuPricePremium"}
      [] name = "Autopilot Accelerator Spot Memory Premium" ->
           {"SpotAcceleratorMemoryGPUPricePremium"}
      [] name = "Autopilot T4 Spot Premium" -> {"SpotAcceleratorT4GPUPricePremium"}
      [] name = "Autopilot L4 Spot Premium" -> {"SpotAcceleratorL4GPUPricePremium"}
      [] name = "Autopilot A100 40GB Spot Premium" ->
           {"SpotAcceleratorA10040GGPUPricePremium"}
      [] name = "Autopilot A100 80GB Spot Premium" ->
           {"SpotAcceleratorA10080GGPUPricePremium"}
      [] name = "Autopilot H100 80GB Spot Premium" -> {"SpotAcceleratorH100GPUPricePremium"}
      [] OTHER -> {}

\* lines 350-357 and the switch: what one SKU of the catalog does to the
\* price list
ApplySku(pricing, sku) ==
    LET region == RegionOf(pricing.Region)
    IN  IF region \notin sku.ServiceRegions \/ sku.DescriptionRegion # region
        THEN pricing
        ELSE [f \in DOMAIN pricing |->
                 IF f \in SkuFields(sku.Name) THEN SkuPrice(sku) ELSE pricing[f]]

US_CENTRAL1 == <<"u", "s", "-", "c", "e", "n", "t", "r", "a", "l", "1">>
EUROPE_WEST4 == <<"e", "u", "r", "o", "p", "e", "-", "w", "e", "s", "t", "4">>

\* a SKU of one tier, sold in one region
Sku(name, region, nanos, displayQuantity) ==
    [Name |-> name, DescriptionRegion |-> region, ServiceRegions |-> {region},
     Units |-> 0, Nanos |-> nanos, DisplayQuantity |-> displayQuantity]

\* on-demand and spot GPU-pod SKUs of the first and of the last model of the
\* cases, a general-purpose SKU and a SKU of another region
SampleSkus ==
    {Sku("Autopilot NVIDIA T4 Pod mCPU Requests", US_CENTRAL1, 40, 1000),
     Sku("Autopilot NVIDIA A100 80GB Pod mCPU Requests", US_CENTRAL1, 44, 1000),
     Sku("Autopilot NVIDIA T4 Spot Pod mCPU Requests", US_CENTRAL1, 12, 1000),
     Sku("Autopilot NVIDIA A100 80GB Spot Pod mCPU Requests", US_CENTRAL1, 14, 1000),
     Sku("Autopilot NVIDIA L4 Pod Memory Requests", US_CENTRAL1, 5, 1),
     Sku("Autopilot NVIDIA A100 80GB Spot Pod Memory Requests", US_CENTRAL1, 2, 1),
     Sku("Autopilot NVIDIA T4 Pod GPU Requests", US_CENTRAL1, 300, 1),
     Sku("Autopilot NVIDIA T4 Spot Pod GPU Requests", US_CENTRAL1, 100, 1),
     Sku("Autopilot Pod mCPU Requests", US_CENTRAL1, 33, 1000),
     Sku("Autopilot NVIDIA A100 80GB Pod Memory Requests", EUROPE_WEST4, 6, 1)}

\* at most MaxSkus SKUs in the catalog
MaxSkus == 3

\* the catalogs of at most MaxSkus different SKUs
Catalogs ==
    UNION {{l \in [1..n -> SampleSkus] : \A i, j \in 1..n : i # j => l[i] # l[j]} :
               n \in 0..MaxSkus}

\* lines 262-325: every price starts at 0; the location is a region or a
\* zone of it
InitCatalog ==
    /\ pc = "loading"
    /\ skus \in Catalogs
    /\ \E location \in {US_CENTRAL1, US_CENTRAL1 \o <<"-", "a">>} :
           AutopilotPricing = [f \in {"Region"} |-> location] @@ ZeroAutopilotPricing
    /\ GCEPricing = ZeroGCEPricing
    /\ mCPU = 0 /\ memory = 0 /\ storage = 0 /\ gpu = 0
    /\ raw = Triple(0, 0, 0) /\ first = raw
    /\ gpuModel = "" /\ machineType = NoInstanceType
    /\ arm64 = FALSE /\ spot = FALSE
    /\ computeClass = NoClass /\ cost = NoCost
    /\ Config = SampleConfig
    /\ NoContainers /\ NoOtherTables /\ NoCluster /\ rows = NoRows

\* lines 349-511: one iteration of the loop over pricingInfo.Skus
LoadSku ==
    /\ pc = "loading"
    /\ skus # <<>>
    /\ AutopilotPricing' = ApplySku(AutopilotPricing, Head(skus))
    /\ skus' = Tail(skus)
    /\ UNCHANGED <<pc, mCPU, memory, storage, raw, first, gpu, gpuModel, machineType,
                   arm64, spot, computeClass, cost, Config, GCEPricing, podVars,
                   tableVars, clusterVars, rows>>

\* lines 512-520
ReturnPricing ==
    /\ pc = "loading"
    /\ skus = <<>>
    /\ pc' = "loaded"
    /\ UNCHANGED <<mCPU, memory, storage, raw, first, gpu, gpuModel, machineType, arm64,
                   spot, computeClass, cost, Config, AutopilotPricing, GCEPricing,
                   podVars, tableVars, clusterVars, reportVars>>

NextCatalog == LoadSku \/ ReturnPricing

SpecCatalog == InitCatalog /\ [][NextCatalog]_vars

(***************************************************************************)
(* Claims                                                                  *)
(***************************************************************************)
\* C1 (SpecClassify): DecideComputeClass is total.  For every machine
\* type, mCPU (0 and the smallest normalized value 50 included), memory, GPU
\* count, GPU model, ARM flag and configuration, the call returns one of the
\* seven compute classes.
ClassifierTotal ==
    pc = "classified" =>
        computeClass \in {"GeneralPurpose", "Balanced", "Scaleout", "ScaleoutArm",
                          "Performance", "Accelerator", "GPUPod"}

\* C1 witness: the smallest normalized cpu, no threshold configured, no band
\* matches and the call has returned the general-purpose default
ClassifierTotalWitness ==
    /\ pc = "classified"
    /\ mCPU = 50 /\ memory = 52 /\ gpu = 0 /\ ~arm64
    /\ machineType = E2Standard4 /\ gpuModel = ""
    /\ Config = NoThresholdsConfig
    /\ computeClass = "GeneralPurpose"

\* some non-empty entry of the configured accelerator-optimized list is an
\* initial segment of the machine type
HasAcceleratorPrefix(mt) ==
    LET entries == Split(KeyString("gce_accelerator_optimized_prefixed"), ",")
    IN  \E i \in 1..Len(entries) : Len(entries[i]) > 0 /\ HasPrefix(mt, entries[i])

\* C2 (SpecClassify): a workload with gpu > 0 on a machine type of the
\* accelerator-optimized prefix set is classified Accelerator, whatever its
\* cpu, memory, GPU model and ARM flag are.
AcceleratorPriority ==
    (pc = "classified" /\ gpu > 0 /\ HasAcceleratorPrefix(machineType)) =>
        computeClass = "Accelerator"

\* C3 (SpecPricing): CalculatePricing returns a cost >= 0 for every class,
\* spot flag, GPU model, GPU count, machine type and non-negative triple,
\* the rates of the price table being >= 0.
PricingNonNegative ==
    pc # "start" => (~cost.panic /\ cost.value >= 0)

\* C4 (SpecNormalize): ValidateAndRoundResources applied to its own result
\* returns that result unchanged.
NormalizerIdempotent ==
    pc = "renormalized" => Triple(mCPU, memory, storage) = first

\* C4 witness: a triple that the first call floors and rounds, after the
\* second call
NormalizerIdempotentWitness ==
    /\ pc = "renormalized"
    /\ raw = Triple(249, 49, 9)
    /\ first = Triple(250, 52, 10)

\* C5 (SpecNormalize): every component of the result is at least its
\* minimum, cpu >= 50, memory >= 52, storage >= 10.
NormalizerFloors ==
    pc = "normalized" => (mCPU >= 50 /\ memory >= 52 /\ storage >= 10)

\* C5 witness: the all-zero triple has been raised to the three minimums
NormalizerFloorsWitness ==
    /\ pc = "normalized"
    /\ raw = Triple(0, 0, 0)
    /\ Triple(mCPU, memory, storage) = Triple(50, 52, 10)

\* C6 (SpecNormalize): the returned cpu is a multiple of 50, on the early
\* return and on the rounding path.
NormalizerStepAligned ==
    pc = "normalized" => mCPU % 50 = 0

\* C6 witness: the rounding path has been taken, 1618 has become 1650
NormalizerStepAlignedWitness ==
    /\ pc = "normalized"
    /\ raw.cpu = 1618
    /\ mCPU = 1650

\* the cpu and memory rates that the price table holds for a class in a
\* spot mode
ClassCpuRate(class, sp) ==
    CASE class = "GeneralPurpose" ->
           IF sp THEN AutopilotPricing.SpotCpuPrice ELSE AutopilotPricing.CpuPrice
      [] class = "Balanced" ->
           IF sp THEN AutopilotPricing.SpotCpuBalancedPrice ELSE AutopilotPricing.CpuBalancedPrice
      [] class = "Scaleout" ->
           IF sp THEN AutopilotPricing.SpotCpuScaleoutPrice ELSE AutopilotPricing.CpuScaleoutPrice
      [] class = "ScaleoutArm" ->
           IF sp THEN AutopilotPricing.SpotArmCpuScaleoutPrice
                 ELSE AutopilotPricing.CpuArmScaleoutPrice

ClassMemoryRate(class, sp) ==
    CASE class = "GeneralPurpose" ->
           IF sp THEN AutopilotPricing.SpotMemoryPrice ELSE AutopilotPricing.MemoryPrice
      [] class = "Balanced" ->
           IF sp THEN AutopilotPricing.SpotMemoryBalancedPrice
                 ELSE AutopilotPricing.MemoryBalancedPrice
      [] class = "Scaleout" ->
           IF sp THEN AutopilotPricing.SpotMemoryScaleoutPrice
                 ELSE AutopilotPricing.MemoryScaleoutPrice
      [] class = "ScaleoutArm" ->
           IF sp THEN AutopilotPricing.SpotArmMemoryScaleoutPrice
                 ELSE AutopilotPricing.MemoryArmScaleoutPrice

\* C7 (SpecPricing): for GeneralPurpose, Balanced, Scaleout and ScaleoutArm
\* and either spot mode, the cost is cpuRate*cpu/1000 + memRate*memory/1000
\* + storageRate*storage/1000 with the cpu and memory rates of that class
\* and that spot mode and the shared storage rate.
ClassRatePricing ==
    (pc # "start" /\ computeClass \in {"GeneralPurpose", "Balanced", "Scaleout", "ScaleoutArm"}) =>
        cost = Return(ClassCpuRate(computeClass, spot) * mCPU
                      + ClassMemoryRate(computeClass, spot) * memory
                      + AutopilotPricing.StoragePrice * storage)

\* C8 (Spec): the pricing step returns a value for every pod, whatever the
\* instance type of its node is, the empty instance type of a pod whose
\* node is not in the node map included.
PricingAlwaysReturns ==
    pc # "panic" /\ ~cost.panic

\* the memory after the minimum floor, before the cpu is rounded
FlooredMemory == IF raw.memory < 52 THEN 52 ELSE raw.memory

\* the cpu after the minimum floor, before it is rounded
FlooredCpu == IF raw.cpu < 50 THEN 50 ELSE raw.cpu

Max(a, b) == IF a >= b THEN a ELSE b

\* the requests of the spec container called name, none when the pod has no
\* such container
RequestsOf(name) ==
    IF \E i \in 1..Len(specContainers) : specContainers[i].name = name
    THEN specContainers[CHOOSE i \in 1..Len(specContainers) : specContainers[i].name = name]
    ELSE [name |-> name, cpu |-> 0, memory |-> 0, storage |-> 0, gpu |-> 0]

\* C11 (SpecSum): for every container and each of cpu, memory and storage,
\* the amount added to the total of the pod is max(observed usage, requested
\* amount) of that same resource kind of that container.
ContainerMaxUsage ==
    podContainerCount > 0 =>
        LET container == containers[podContainerCount]
            requests  == RequestsOf(container.name)
        IN  /\ added.cpu = Max(container.cpu, requests.cpu)
            /\ added.memory = Max(MiB(container.memory), MiB(requests.memory))
            /\ added.storage = Max(MiB(container.storage), MiB(requests.storage))

\* every ratio band and every mCPU and memory ceiling of the ratio-based
\* classes reads as 0
ThresholdsReadZero ==
    /\ ratioRegularMin = 0 /\ ratioRegularMax = 0
    /\ ratioScaleoutMin = 0 /\ ratioScaleoutMax = 0
    /\ ratioBalancedMin = 0 /\ ratioBalancedMax = 0
    /\ regularMcpuMax = 0 /\ regularMemoryMax = 0
    /\ scaleoutMcpuMax = 0 /\ scaleoutMemoryMax = 0
    /\ balancedMcpuMax = 0 /\ balancedMemoryMax = 0

\* the prefix lists and the flagship GPU identifier are configured
FamiliesConfigured ==
    /\ KeyString("gce_compute_optimized_prefixed") # <<>>
    /\ KeyString("gce_accelerator_optimized_prefixed") # <<>>
    /\ KeyName("nvidia_h100_identifier") # ""

\* a call that has returned for a normalized workload with no GPU, no ARM
\* flag and a machine type of no special family, under zero thresholds
ZeroThresholdCase ==
    /\ pc = "classified"
    /\ ThresholdsReadZero /\ FamiliesConfigured
    /\ mCPU >= 50 /\ mCPU % 50 = 0 /\ memory >= 52
    /\ gpu = 0 /\ ~arm64
    /\ ~IsComputeOptimized(machineType) /\ ~IsAcceleratorOptimized(machineType)

\* no ratio-based class matches the workload by band and ceilings
NoBandMatches ==
    /\ ~GeneralPurposeBand(Ratio(memory, mCPU), mCPU, memory)
    /\ ~ScaleoutBand(Ratio(memory, mCPU), mCPU, memory)
    /\ ~BalancedBand(Ratio(memory, mCPU), mCPU, memory)

\* C12 as claimed (SpecClassify): under zero thresholds every normalized
\* workload with no GPU, no ARM flag and a machine type of no special family
\* matches no band and is classified GeneralPurpose.
ZeroThresholdsFallback ==
    ZeroThresholdCase => (NoBandMatches /\ computeClass = "GeneralPurpose")

\* C12 as amended (SpecClassify): the same for a workload whose GPU model is
\* not the flagship identifier.
ZeroThresholdsFallbackNoFlagship ==
    (ZeroThresholdCase /\ gpuModel # KeyName("nvidia_h100_identifier")) =>
        (NoBandMatches /\ computeClass = "GeneralPurpose")

\* C12 witness: a large workload on e2-standard-4, thresholds missing, has
\* fallen to GeneralPurpose
ZeroThresholdsFallbackWitness ==
    /\ ZeroThresholdCase
    /\ Config = NoThresholdsConfig
    /\ machineType = E2Standard4 /\ gpuModel = ""
    /\ mCPU = 35000 /\ memory = 140000
    /\ computeClass = "GeneralPurpose"

\* C13 (SpecTables): with isSpot the cost is the same under two price
\* tables that agree on every spot rate and on the shared storage rate and
\* differ in on-demand rates; without isSpot the cost is the same under two
\* tables that differ in spot rates only.
SpotReadsOnlySpotTable ==
    (pc = "repriced" /\ otherTables = (IF spot THEN OnDemandRaisedTables ELSE SpotRaisedTables)) =>
        cost = firstCost

\* C14 (SpecClassify): a workload with the ARM flag, no GPU, a GPU model
\* other than the flagship identifier and a machine type that neither
\* machine-family rule matches is classified ScaleoutArm, whatever its cpu
\* and memory are, out of the ARM band and ceilings included.
ArmIsScaleoutArm ==
    (/\ pc = "classified" /\ arm64 /\ gpu = 0 /\ ~IsH100(gpuModel)
     /\ ~IsComputeOptimized(machineType) /\ ~IsAcceleratorOptimized(machineType)) =>
        computeClass = "ScaleoutArm"

\* C14 witness: an ARM workload over the ARM cpu and memory ceilings, ratio
\* over the band, has been classified ScaleoutArm
ArmIsScaleoutArmWitness ==
    /\ pc = "classified" /\ arm64 /\ gpu = 0 /\ gpuModel = ""
    /\ Config = SampleConfig /\ machineType = T2AStandard4
    /\ mCPU = 50 /\ memory = 900000
    /\ ArmOutOfRange(Ratio(memory, mCPU), mCPU, memory)
    /\ computeClass = "ScaleoutArm"

HasComputePrefix(mt) ==
    LET entries == Split(KeyString("gce_compute_optimized_prefixed"), ",")
    IN  \E i \in 1..Len(entries) : HasPrefix(mt, entries[i])

\* C16 (SpecClassify): a machine type that matches a configured
\* compute-optimized family prefix is classified Performance, whatever the
\* cpu, memory, GPU count, GPU model and ARM flag are and also when it
\* matches an accelerator-optimized prefix.
ComputeOptimizedIsPerformance ==
    (pc = "classified" /\ HasComputePrefix(machineType)) => computeClass = "Performance"

\* C16 witness: c2d-highcpu-4 with c2d in both prefix lists, two L4 GPUs and
\* the ARM flag has been classified Performance
ComputeOptimizedIsPerformanceWitness ==
    /\ pc = "classified"
    /\ Config = OverlapConfig /\ machineType = C2DHighcpu4
    /\ HasComputePrefix(machineType) /\ HasAcceleratorPrefix(machineType)
    /\ gpu = 2 /\ gpuModel = "nvidia-l4" /\ arm64
    /\ computeClass = "Performance"

\* some entry of the comma separated list is an initial segment of the
\* machine type
HasPrefixIn(mt, list) ==
    LET entries == Split(list, ",")
    IN  \E i \in 1..Len(entries) : HasPrefix(mt, entries[i])

\* C17 (SpecClassify): when no configured compute-optimized prefix and no
\* configured accelerator-optimized prefix is an initial segment of the
\* machine type, also when one occurs further inside it, and the GPU model
\* is not the flagship identifier, the class is neither Performance nor
\* Accelerator.
FamilyMatchIsByPrefix ==
    (/\ pc = "classified"
     /\ ~HasPrefixIn(machineType, KeyString("gce_compute_optimized_prefixed"))
     /\ ~HasPrefixIn(machineType, KeyString("gce_accelerator_optimized_prefixed"))
     /\ ~IsH100(gpuModel)) =>
        computeClass \notin {"Performance", "Accelerator"}

GpuIsGPUPod ==
    (/\ pc = "classified" /\ gpu > 0
     /\ ~IsComputeOptimized(machineType) /\ ~IsH100(gpuModel)
     /\ ~IsAcceleratorOptimized(machineType)) =>
        computeClass = "GPUPod"

\* C19 witness: a T4 workload under the T4 minimums, on an ARM node, has
\* been classified GPUPod
GpuIsGPUPodWitness ==
    /\ pc = "classified"
    /\ Config = SampleConfig /\ machineType = T2AStandard4 /\ arm64
    /\ gpu = 1 /\ gpuModel = "nvidia-tesla-t4"
    /\ mCPU = 50 /\ memory = 52
    /\ GPUPodOutOfRange(gpuModel, mCPU, memory)
    /\ computeClass = "GPUPod"

\* the ratio band and the mCPU and memory ceilings that the configuration
\* holds under the four keys all hold for the workload
BandAndCeilingsHold(minKey, maxKey, mcpuKey, memoryKey) ==
    /\ FGreaterEq(Ratio(memory, mCPU), KeyFloat64("ratios", minKey))
    /\ FLessEq(Ratio(memory, mCPU), KeyFloat64("ratios", maxKey))
    /\ mCPU <= KeyInt64("limits", mcpuKey)
    /\ memory <= KeyInt64("limits", memoryKey)

\* the first of GeneralPurpose, Scaleout, Balanced whose band and ceilings
\* hold, GeneralPurpose when none does
FirstMatchingClass ==
    IF BandAndCeilingsHold("generalpurpose_min", "generalpurpose_max",
                           "generalpurpose_mcpu_max", "generalpurpose_memory_max")
    THEN "GeneralPurpose"
    ELSE IF BandAndCeilingsHold("scaleout_min", "scaleout_max",
                                "scaleout_mcpu_max", "scaleout_memory_max")
    THEN "Scaleout"
    ELSE IF BandAndCeilingsHold("balanced_min", "balanced_max",
                                "balanced_mcpu_max", "balanced_memory_max")
    THEN "Balanced"
    ELSE "GeneralPurpose"

\* C20 (SpecClassify): a workload that reaches the ratio-based step (no
\* machine-family rule, no flagship GPU, no GPU, no ARM flag) is given the
\* first of GeneralPurpose, Scaleout, Balanced whose ratio band and mCPU and
\* memory ceilings all hold, and GeneralPurpose when none does.
RatioStepFirstMatch ==
    (/\ pc = "classified" /\ gpu = 0 /\ ~arm64
     /\ ~IsComputeOptimized(machineType) /\ ~IsH100(gpuModel)
     /\ ~IsAcceleratorOptimized(machineType)) =>
        computeClass = FirstMatchingClass

\* C21 (SpecClassify): Balanced is returned only if the ratio lies in the
\* balanced band, mCPU <= limits.balanced_mcpu_max and memory <=
\* limits.balanced_memory_max, the memory ceiling being the one of the
\* configuration whatever the mCPU ceiling is.
BalancedWithinCeilings ==
    (pc = "classified" /\ computeClass = "Balanced") =>
        BandAndCeilingsHold("balanced_min", "balanced_max",
                            "balanced_mcpu_max", "balanced_memory_max")

\* the outcome of adding an amount (in thousandths) to the outcome of
\* GetGCEMachinePrice on the machine type and spot mode of the state: no
\* value when the machine price call returns none
WithMachinePrice(amount) ==
    LET gce == GetGCEMachinePrice(machineType, spot)
    IN  IF gce.panic THEN Panic ELSE Return(amount + 1000 * gce.value)

\* the Performance premium of a spot mode, in thousandths
PerformancePremium ==
    IF spot
    THEN AutopilotPricing.SpotPerformanceCpuPricePremium * mCPU
         + AutopilotPricing.SpotPerformanceMemoryPricePremium * memory
         + AutopilotPricing.SpotPerformanceLocalSSDPricePremium * storage
    ELSE AutopilotPricing.PerformanceCpuPricePremium * mCPU
         + AutopilotPricing.PerformanceMemoryPricePremium * memory
         + AutopilotPricing.PerformanceLocalSSDPricePremium * storage

\* C22 (SpecPricing): for class Performance and either spot mode the cost
\* is cpu premium*cpu/1000 + memory premium*memory/1000 + local-SSD
\* premium*storage/1000, with the premiums of that spot mode, plus the
\* machine price of the machine type in that spot mode, whatever the GPU
\* count and the GPU model are (neither occurs in the expected cost).
PerformancePremiumPlusMachine ==
    (pc # "start" /\ computeClass = "Performance") =>
        cost = WithMachinePrice(PerformancePremium)

\* C22 witness: a spot Performance workload with two GPUs of a known model
\* on c2-standard-8 has been priced, the machine price being 38*8 + 41*32
PerformancePremiumPlusMachineWitness ==
    /\ pc = "priced" /\ computeClass = "Performance" /\ spot
    /\ machineType = C2Standard8 /\ gpu = 2 /\ gpuModel = "nvidia-tesla-t4"
    /\ raw = Triple(250, 1000, 900)
    /\ AutopilotPricing = SampleAutopilotPricing
    /\ cost.value = 75 * 250 + 77 * 1000 + 81 * 900 + 1000 * (38 * 8 + 41 * 32)

\* the GPU models the Accelerator branches know
AcceleratorModels ==
    {"nvidia-tesla-t4", "nvidia-l4", "nvidia-tesla-a100", "nvidia-a100-80gb",
     "nvidia-h100-80gb"}

\* the cpu, memory and local-SSD parts of the Accelerator premium of a spot
\* mode, in thousandths
AcceleratorPremium ==
    IF spot
    THEN AutopilotPricing.SpotAcceleratorCpuPricePremium * mCPU
         + AutopilotPricing.SpotAcceleratorMemoryGPUPricePremium * memory
         + AutopilotPricing.SpotAcceleratorLocalSSDPricePremium * storage
    ELSE AutopilotPricing.AcceleratorCpuPricePremium * mCPU
         + AutopilotPricing.AcceleratorMemoryGPUPricePremium * memory
         + AutopilotPricing.AcceleratorLocalSSDPricePremium * storage

\* the Accelerator premium of one GPU of a known model in a spot mode
AcceleratorModelPremium ==
    CASE gpuModel = "nvidia-tesla-t4" ->
           IF spot THEN AutopilotPricing.SpotAcceleratorT4GPUPricePremium
                   ELSE AutopilotPricing.AcceleratorT4GPUPricePremium
      [] gpuModel = "nvidia-l4" ->
           IF spot THEN AutopilotPricing.SpotAcceleratorL4GPUPricePremium
                   ELSE AutopilotPricing.AcceleratorL4GPUPricePremium
      [] gpuModel = "nvidia-tesla-a100" ->
           IF spot THEN AutopilotPricing.SpotAcceleratorA10040GGPUPricePremium
                   ELSE AutopilotPricing.AcceleratorA10040GGPUPricePremium
      [] gpuModel = "nvidia-a100-80gb" ->
           IF spot THEN AutopilotPricing.SpotAcceleratorA10080GGPUPricePremium
                   ELSE AutopilotPricing.AcceleratorA10080GGPUPricePremium
      [] gpuModel = "nvidia-h100-80gb" ->
           IF spot THEN AutopilotPricing.SpotAcceleratorH100GPUPricePremium
                   ELSE AutopilotPricing.AcceleratorH100GPUPricePremium

\* the unknown-model half of C23: the cost is exactly the machine price
UnknownModelIsMachinePrice ==
    (pc # "start" /\ computeClass = "Accelerator" /\ gpuModel \notin AcceleratorModels) =>
        cost = WithMachinePrice(0)

\* the known-model half of C23
KnownModelIsPremiumPlusMachine ==
    (pc # "start" /\ computeClass = "Accelerator" /\ gpuModel \in AcceleratorModels) =>
        cost = WithMachinePrice(AcceleratorPremium + 1000 * AcceleratorModelPremium * gpu)

\* C23 (SpecPricing): for class Accelerator, in both spot modes, a GPU
\* model outside the five known ones zeroes the whole premium and the cost
\* is exactly the machine price; with a known model the cost is the cpu,
\* memory and local-SSD premium of the spot mode plus the model premium
\* times the GPU count plus the machine price.
AcceleratorPremiumOrMachineOnly ==
    UnknownModelIsMachinePrice /\ KnownModelIsPremiumPlusMachine

\* C23 restricted to the calls without isSpot
AcceleratorOnDemandAsClaimed ==
    ~spot => AcceleratorPremiumOrMachineOnly

\* the GPU models the GPUPod branches know
GPUPodModels ==
    {"nvidia-tesla-t4", "nvidia-l4", "nvidia-tesla-a100", "nvidia-a100-80gb"}

\* the vCPU, memory and local-SSD GPU-pod rates of a spot mode applied to
\* the triple, in thousandths
GPUPodResourceCost ==
    IF spot
    THEN AutopilotPricing.SpotGPUPodvCPUPrice * mCPU
         + AutopilotPricing.SpotGPUPodMemoryPrice * memory
         + AutopilotPricing.SpotGPUPodLocalSSDPrice * storage
    ELSE AutopilotPricing.GPUPodvCPUPrice * mCPU
         + AutopilotPricing.GPUPodMemoryPrice * memory
         + AutopilotPricing.GPUPodLocalSSDPrice * storage

\* the GPU-pod rate of one GPU of a known model in a spot mode
GPUPodModelRate ==
    CASE gpuModel = "nvidia-tesla-t4" ->
           IF spot THEN AutopilotPricing.SpotNVIDIAT4PodGPUPrice
                   ELSE AutopilotPricing.NVIDIAT4PodGPUPrice
      [] gpuModel = "nvidia-l4" ->
           IF spot THEN AutopilotPricing.SpotNVIDIAL4PodGPUPrice
                   ELSE AutopilotPricing.NVIDIAL4PodGPUPrice
      [] gpuModel = "nvidia-tesla-a100" ->
           IF spot THEN AutopilotPricing.SpotNVIDIAA10040GPodGPUPrice
                   ELSE AutopilotPricing.NVIDIAA10040GPodGPUPrice
      [] gpuModel = "nvidia-a100-80gb" ->
           IF spot THEN AutopilotPricing.SpotNVIDIAA10080GPodGPUPrice
                   ELSE AutopilotPricing.NVIDIAA10080GPodGPUPrice

\* C24 (SpecPricing): for class GPUPod, in both spot modes, the cost is
\* vCPU rate*cpu/1000 + memory rate*memory/1000 + local-SSD rate*storage/1000
\* + model rate*gpuCount for the four known models and exactly 0 for any
\* other model, the empty one and nvidia-h100-80gb included; a cost is
\* returned whatever the machine type is and the machine type does not
\* occur in it.
GPUPodRatesOrZero ==
    (pc # "start" /\ computeClass = "GPUPod") =>
        cost = IF gpuModel \in GPUPodModels
               THEN Return(GPUPodResourceCost + 1000 * GPUPodModelRate * gpu)
               ELSE Return(0)

\* C24 witness: a GPUPod workload with the flagship model, one GPU and a
\* non-zero triple has been priced at 0 under the non-zero table, on a
\* machine type that has a machine price
GPUPodRatesOrZeroWitness ==
    /\ pc = "priced" /\ computeClass = "GPUPod" /\ ~spot
    /\ gpuModel = "nvidia-h100-80gb" /\ gpu = 1
    /\ machineType = A3Highgpu8
    /\ raw = Triple(250, 1000, 900)
    /\ AutopilotPricing = SampleAutopilotPricing
    /\ cost = Return(0)

\* the three fields of the machine type of the state
MachineFields == Split(machineType, "-")

\* the machine type has the form <family>-<class>-<cores>, the cores being
\* a decimal number
HasFamilyClassCores ==
    /\ Len(MachineFields) = 3
    /\ Len(MachineFields[3]) > 0
    /\ \A i \in 1..Len(MachineFields[3]) :
           \E d \in 1..Len(Digits) : Digits[d] = MachineFields[3][i]

\* the cpu and memory rates of a family in the spot mode of the state; h3
\* has its on-demand rates in both modes, an unlisted family has none
FamilyRates ==
    LET family == MachineFields[1]
        T == GCEPricing
    IN  CASE family = A2  -> IF spot THEN <<T.SpotA2CpuPrice, T.SpotA2MemoryPrice>>
                                     ELSE <<T.A2CpuPrice, T.A2MemoryPrice>>
          [] family = A3  -> IF spot THEN <<T.SpotA3CpuPrice, T.SpotA3MemoryPrice>>
                                     ELSE <<T.A3CpuPrice, T.A3MemoryPrice>>
          [] family = G2  -> IF spot THEN <<T.SpotG2DCpuPrice, T.SpotG2DMemoryPrice>>
                                     ELSE <<T.G2CpuPrice, T.G2MemoryPrice>>
          [] family = C2  -> IF spot THEN <<T.SpotC2CpuPrice, T.SpotC2MemoryPrice>>
                                     ELSE <<T.C2CpuPrice, T.C2MemoryPrice>>
          [] family = C2D -> IF spot THEN <<T.SpotC2DCpuPrice, T.SpotC2DMemoryPrice>>
                                     ELSE <<T.C2DCpuPrice, T.C2DMemoryPrice>>
          [] family = H3  -> <<T.H3CpuPrice, T.H3MemoryPrice>>
          [] OTHER -> <<0, 0>>

\* the ram of so many cores of the class of the machine type, the two GPU
\* classes rounded up
ClassRam(cores) ==
    LET classType == MachineFields[2]
    IN  CASE classType = STANDARD -> 4 * cores
          [] classType = HIGHCPU  -> 2 * cores
          [] classType = HIGHMEM  -> 4 * cores
          [] classType = HIGHGPU  ->
               CHOOSE r \in 0..(8 * cores) :
                   r * 10000 >= 70833 * cores /\ (r - 1) * 10000 < 70833 * cores
          [] classType = ULTRAGPU ->
               CHOOSE r \in 0..(15 * cores) :
                   r * 10000 >= 141666 * cores /\ (r - 1) * 10000 < 141666 * cores

\* C25 (SpecPricing): for a machine type <family>-<class>-<cores> of one of
\* the five classes, GetGCEMachinePrice returns cpuRate*cores + memRate*ram
\* with the rates of the family in the spot mode (h3: the on-demand rates
\* in both modes), ram being 4, 2, 4 times the cores for standard, highcpu,
\* highmem and 7.0833, 14.1666 times the cores rounded up for highgpu,
\* ultragpu; for any other family it returns 0 in both spot modes.
MachinePriceByFamilyAndClass ==
    (/\ HasFamilyClassCores
     /\ MachineFields[2] \in {STANDARD, HIGHCPU, HIGHMEM, HIGHGPU, ULTRAGPU}) =>
        LET cores == DecimalValue(MachineFields[3])
        IN  GetGCEMachinePrice(machineType, spot) =
                Return(FamilyRates[1] * cores + FamilyRates[2] * ClassRam(cores))

\* C25 witness: a spot Performance workload on a2-ultragpu-2 has been
\* priced, the machine price 56*2 + 59*29 (ram ceil(28.3332) = 29) being
\* part of its cost
MachinePriceByFamilyAndClassWitness ==
    /\ pc = "priced" /\ computeClass = "Performance" /\ spot
    /\ machineType = A2Ultragpu2
    /\ GCEPricing = SampleGCEPricing
    /\ GetGCEMachinePrice(machineType, spot) = Return(56 * 2 + 59 * 29)
    /\ cost.value = PerformancePremium + 1000 * (56 * 2 + 59 * 29)

\* the number of entries of a list of workloads that are a given workload
Occurrences(list, w) == Cardinality({i \in 1..Len(list) : list[i] = w})

\* C26 (SpecPopulate): at every point of PopulateWorkloads between two
\* pods, and after it, every node's Cost is the sum of the Cost of the
\* entries of its Workloads list; each workload of the result list whose
\* node name is a key of the map is once in that node's list and in no
\* other node's list, a workload whose node is unknown is in no list; no
\* list holds anything else; and the keys of the map are those it had.
NodeCostIsSumOfWorkloads ==
    /\ DOMAIN nodes = DOMAIN SampleNodes
    /\ \A n \in DOMAIN nodes :
           /\ nodes[n].Cost = SumCost(nodes[n].Workloads, 1)
           /\ \A i \in 1..Len(nodes[n].Workloads) :
                  /\ nodes[n].Workloads[i].Node_name = n
                  /\ Occurrences(workloads, nodes[n].Workloads[i]) = 1
    /\ \A i \in 1..Len(workloads) : \A n \in DOMAIN nodes :
           Occurrences(nodes[n].Workloads, workloads[i]) =
               IF workloads[i].Node_name = n THEN 1 ELSE 0

\* C26 witness: three pods have been processed, two of node-a and one of
\* an unknown node; node-a holds the two and their summed cost, the third
\* is in the result list only
NodeCostIsSumOfWorkloadsWitness ==
    /\ pc = "returned"
    /\ Len(workloads) = 3
    /\ workloads[1].Node_name = "node-a" /\ workloads[2].Node_name = "node-a"
    /\ workloads[3].Node_name = "gone" /\ workloads[3].Cost > 0
    /\ Len(nodes["node-a"].Workloads) = 2
    /\ nodes["node-a"].Cost = workloads[1].Cost + workloads[2].Cost
    /\ nodes["node-a"].Cost > workloads[1].Cost
    /\ nodes["node-b"].Cost = 0 /\ nodes["node-c"].Cost = 0

\* the cost of a workload record, priced again from the cpu, memory and
\* storage the record holds and the node its name gives
CostOfRecord(w) ==
    CalculatePricing(w.Cpu, w.Memory, w.Storage, w.AcceleratorAmount, w.AcceleratorType,
                     w.ComputeClass, NodeOf(w.Node_name).InstanceType,
                     NodeOf(w.Node_name).Spot)

\* C27 (SpecPopulate): at the call of DecideComputeClass (the state reached
\* by line 325, and the state the call leaves) mCPU >= 50 and memory >= 52,
\* for every pod, the pod with no container included; and the record of a
\* processed workload holds the triple ValidateAndRoundResources returned
\* for the summed usage, its cost being the price of that triple.
ClassifierOnNormalized ==
    /\ pc \in {"normalized", "classified"} => (mCPU >= 50 /\ memory >= 52)
    /\ \A i \in 1..Len(workloads) :
           /\ workloads[i].Cpu >= 50 /\ workloads[i].Memory >= 52
           /\ workloads[i].Cost = CostOfRecord(workloads[i]).value
    /\ (pc = "loop" /\ workloads # <<>>) =>
           LET w == workloads[Len(workloads)]
           IN  Triple(w.Cpu, w.Memory, w.Storage) =
                   ValidateAndRoundResources(raw.cpu, raw.memory, raw.storage)

\* C27 witness: the pod with no container has been classified on 50 mCPU
\* and 52 MiB and recorded with them, at the price of 50, 52 and 10
ClassifierOnNormalizedWitness ==
    /\ pc = "loop" /\ Len(workloads) = 1
    /\ workloads[1].Name = "idle" /\ workloads[1].Containers = 0
    /\ raw = Triple(0, 0, 0)
    /\ workloads[1].Cpu = 50 /\ workloads[1].Memory = 52 /\ workloads[1].Storage = 10
    /\ workloads[1].ComputeClass = "GeneralPurpose"
    /\ workloads[1].Cost = 5 * 50 + 7 * 52 + 3 * 10

\* the compute-optimized list of the configuration, split at the commas, has
\* an empty entry
HasEmptyEntry ==
    LET entries == Split(KeyString("gce_compute_optimized_prefixed"), ",")
    IN  \E i \in 1..Len(entries) : entries[i] = <<>>

\* C28 (SpecEmptyEntry): when the compute-optimized list has an empty entry
\* (key missing, empty value, leading, trailing or double comma) every
\* workload is classified Performance, whatever its machine type, cpu,
\* memory, GPU count, GPU model and ARM flag are.
EmptyEntryIsPerformance ==
    (pc = "classified" /\ HasEmptyEntry) => computeClass = "Performance"

\* C28 witness: under the list "c2,c2d," the workload of 10000 mCPU and
\* 10000 MiB on e2-standard-4 with no GPU and no ARM flag, GeneralPurpose
\* under the sample file, has been classified Performance
EmptyEntryIsPerformanceWitness ==
    /\ pc = "classified" /\ Config = TrailingCommaConfig /\ HasEmptyEntry
    /\ machineType = E2Standard4 /\ mCPU = 10000 /\ memory = 10000
    /\ gpu = 0 /\ gpuModel = "" /\ ~arm64
    /\ computeClass = "Performance"

\* the sum of the costs of all workloads of all nodes, spot or not
AllWorkloadsCost == SumOverNodes(DOMAIN nodes)

\* C29 (SpecPopulate): the row 'Total cost per cluster per hour' shows the
\* sum of the costs of all workloads of all nodes, spot and non-spot, plus
\* the cluster fee; and when both commit discount factors are 1 the total
\* row and the two commit rows show the same amount.
TotalRowIsSumOfAll ==
    pc = "displayed" =>
        /\ rows.total = FormatFloat(100 * (AllWorkloadsCost + rows.clusterFee))
        /\ (rows.oneYearDiscount = NO_DISCOUNT /\ rows.threeYearDiscount = NO_DISCOUNT) =>
               (rows.total = rows.oneYear /\ rows.total = rows.threeYear)

\* C29 restricted to the clusters whose spot nodes have no workload
TotalRowWithoutSpotWorkloads ==
    TotalCostSpot = 0 => TotalRowIsSumOfAll

\* the GPU-pod field that a GPU-pod SKU name stands for: the Spot* field
\* for a 'Spot Pod' SKU, the on-demand field otherwise; the vCPU and memory
\* fields are shared by the four models
GPUPodFieldOf ==
    [n \in {} |-> ""]
    @@ [n \in {"Autopilot NVIDIA T4 Pod mCPU Requests",
               "Autopilot NVIDIA L4 Pod mCPU Requests",
               "Autopilot NVIDIA A100 Pod mCPU Requests",
               "Autopilot NVIDIA A100 80GB Pod mCPU Requests"} |-> "GPUPodvCPUPrice"]
    @@ [n \in {"Autopilot NVIDIA T4 Pod Memory Requests",
               "Autopilot NVIDIA L4 Pod Memory Requests",
               "Autopilot NVIDIA A100 Pod Memory Requests",
               "Autopilot NVIDIA A100 80GB Pod Memory Requests"} |-> "GPUPodMemoryPrice"]
    @@ [n \in {"Autopilot NVIDIA T4 Spot Pod mCPU Requests",
               "Autopilot NVIDIA L4 Spot Pod mCPU Requests",
               "Autopilot NVIDIA A100 Spot Pod mCPU Requests",
               "Autopilot NVIDIA A100 80GB Spot Pod mCPU Requests"} |-> "SpotGPUPodvCPUPrice"]
    @@ [n \in {"Autopilot NVIDIA T4 Spot Pod Memory Requests",
               "Autopilot NVIDIA L4 Spot Pod Memory Requests",
               "Autopilot NVIDIA A100 Spot Pod Memory Requests",
               "Autopilot NVIDIA A100 80GB Spot Pod Memory Requests"} |-> "SpotGPUPodMemoryPrice"]
    @@ ("Autopilot NVIDIA T4 Pod GPU Requests" :> "NVIDIAT4PodGPUPrice")
    @@ ("Autopilot NVIDIA L4 Pod GPU Requests" :> "NVIDIAL4PodGPUPrice")
    @@ ("Autopilot NVIDIA A100 Pod GPU Requests" :> "NVIDIAA10040GPodGPUPrice")
    @@ ("Autopilot NVIDIA A100 80GB Pod GPU Requests" :> "NVIDIAA10080GPodGPUPrice")
    @@ ("Autopilot NVIDIA T4 Spot Pod GPU Requests" :> "SpotNVIDIAT4PodGPUPrice")
    @@ ("Autopilot NVIDIA L4 Spot Pod GPU Requests" :> "SpotNVIDIAL4PodGPUPrice")
    @@ ("Autopilot NVIDIA A100 Spot Pod GPU Requests" :> "SpotNVIDIAA10040GPodGPUPrice")
    @@ ("Autopilot NVIDIA A100 80GB Spot Pod GPU Requests" :> "SpotNVIDIAA10080GPodGPUPrice")

\* the next SKU of the catalog is a GPU-pod SKU of the region
NextIsGPUPodSku ==
    /\ pc = "loading" /\ skus # <<>>
    /\ Head(skus).Name \in DOMAIN GPUPodFieldOf
    /\ RegionOf(AutopilotPricing.Region) \in Head(skus).ServiceRegions
    /\ Head(skus).DescriptionRegion = RegionOf(AutopilotPricing.Region)

\* C30 (SpecCatalog): while the catalog is processed, a GPU-pod SKU of the
\* region sets the field it stands for to its price and changes no other
\* field: a spot SKU its Spot* field, leaving the on-demand fields as they
\* were, and an on-demand mCPU or memory SKU of any of the four models
\* GPUPodvCPUPrice or GPUPodMemoryPrice.
GPUPodSkuSetsItsField ==
    [][NextIsGPUPodSku =>
           AutopilotPricing' =
               [AutopilotPricing EXCEPT ![GPUPodFieldOf[Head(skus).Name]] =
                                            SkuPrice(Head(skus))]]_vars

\* the part of C30 the code keeps: a SKU changes no field but those of the
\* price list, and a SKU of another region changes none
OtherRegionSkuChangesNothing ==
    [][(pc = "loading" /\ skus # <<>>
        /\ RegionOf(AutopilotPricing.Region) \notin Head(skus).ServiceRegions) =>
           AutopilotPricing' = AutopilotPricing]_vars

====
